---- MODULE Spec2Model ----
(***************************************************************************)
(* Hierarchical faceted filter and boolean query engine of the climate     *)
(* solutions explorer (search.js): the boolean query evaluator, the tree   *)
(* filters, the match annotators and getFilteredData, which chains them.   *)
(*                                                                         *)
(* JavaScript values are modelled as follows.                              *)
(*  - an optional field is a sequence of length at most one: <<>> is       *)
(*    undefined (absent), <<v>> holds v;                                   *)
(*  - a node object is a record; "id" names the node of the source tree it *)
(*    is (or is a copy of) and "fresh" says whether the object was         *)
(*    allocated by a filter stage ({...node}) or is the source object;     *)
(*  - a match flag is one of "absent", "undefined", "false", "true";       *)
(*  - a query string is the sequence of its blank-separated words;         *)
(*  - a date string is the sequence of its characters.                     *)
(***************************************************************************)
EXTENDS Integers, Sequences, FiniteSets, TLC

None == <<>>
Some(v) == <<v>>
IsSome(o) == o # <<>>
Val(o) == o[1]

Null == [kind |-> "null"]
IsNull(n) == n.kind = "null"

\* Upper bound on the number of nodes of the source tree.
MaxNodes == 4

NodeIds == 1..MaxNodes

(***************************************************************************)
(* Match flags written by the annotators.                                  *)
(***************************************************************************)
FlagNames ==
  { "isSearchMatch", "hasMatchedDescendants",
    "isTypeMatch", "hasTypeMatchedDescendants",
    "isTagMatch", "hasTagMatchedDescendants",
    "isAuthorMatch", "hasAuthorMatchedDescendants",
    "isLocationMatch", "hasLocationMatchedDescendants",
    "isDateMatch", "hasDateMatchedDescendants" }

\* The flags of a node are the function from the flags written on it to their
\* values; a flag outside its domain is absent.
NoFlags == <<>>

Flag(node, f) == IF f \in DOMAIN node.flags THEN node.flags[f] ELSE "absent"

\* node[f] = v
SetFlag(flags, f, v) ==
  [x \in DOMAIN flags \cup {f} |-> IF x = f THEN v ELSE flags[x]]

\* The JavaScript value of a boolean expression, as a flag value.
FlagOf(b) == IF b THEN "true" ELSE "false"

(***************************************************************************)
(* Sequence helpers.                                                       *)
(***************************************************************************)
Range(s) == {s[i] : i \in DOMAIN s}

\* array.filter(child => child !== null)
NonNull(s) == SelectSeq(s, LAMBDA n : ~IsNull(n))

\* F applied to the value v (a local constant holding v)
With(v, F(_)) == F(v)

(***************************************************************************)
(* Dates.  A date string is a sequence of characters; a Date value is      *)
(* null, an Invalid Date (time NaN) or a day count.  Only the order of     *)
(* two times is ever used, so a time is the day count on a calendar of 12  *)
(* months of 31 days, which orders real dates as the real calendar does.   *)
(***************************************************************************)
Digits == {"0", "1", "2", "3", "4", "5", "6", "7", "8", "9"}

DigitVal(c) ==
  CASE c = "0" -> 0 [] c = "1" -> 1 [] c = "2" -> 2 [] c = "3" -> 3
    [] c = "4" -> 4 [] c = "5" -> 5 [] c = "6" -> 6 [] c = "7" -> 7
    [] c = "8" -> 8 [] c = "9" -> 9

\* the characters of s from position a to b are all digits (\d{b-a+1})
AllDigits(s, a, b) == \A i \in a..b : s[i] \in Digits

RECURSIVE NumVal(_, _, _)
NumVal(s, a, b) ==
  IF a > b THEN 0 ELSE NumVal(s, a, b - 1) * 10 + DigitVal(s[b])

DateNull == [kind |-> "null", valid |-> FALSE, time |-> 0]
InvalidDate == [kind |-> "date", valid |-> FALSE, time |-> 0]
DateAt(t) == [kind |-> "date", valid |-> TRUE, time |-> t]

IsLeap(y) == (y % 4 = 0 /\ y % 100 # 0) \/ y % 400 = 0

DaysInMonth(y, m) ==
  IF m = 2 THEN (IF IsLeap(y) THEN 29 ELSE 28)
  ELSE IF m \in {4, 6, 9, 11} THEN 30 ELSE 31

\* /^\d{4}-\d{2}-\d{2}/ : an ISO date at the start of the string
MatchesIsoDatePrefix(s) ==
  /\ Len(s) >= 10
  /\ AllDigits(s, 1, 4) /\ s[5] = "-" /\ AllDigits(s, 6, 7)
  /\ s[8] = "-" /\ AllDigits(s, 9, 10)

\* /^\d{4}-\d{2}$/
MatchesYearMonth(s) ==
  Len(s) = 7 /\ AllDigits(s, 1, 4) /\ s[5] = "-" /\ AllDigits(s, 6, 7)

\* /^\d{4}$/
MatchesYear(s) == Len(s) = 4 /\ AllDigits(s, 1, 4)

(***************************************************************************)
(* new Date(string) of the JavaScript engine (ECMAScript Date.parse): a    *)
(* date-only ISO string YYYY-MM-DD gives that day when the month is 1..12  *)
(* and the day exists in the month, and an Invalid Date otherwise; every   *)
(* other string of the date strings modelled here is unrecognizable and    *)
(* gives an Invalid Date.                                                  *)
(***************************************************************************)
NewDate(s) ==
  IF Len(s) = 10 /\ MatchesIsoDatePrefix(s)
  THEN LET y == NumVal(s, 1, 4)
           m == NumVal(s, 6, 7)
           d == NumVal(s, 9, 10)
       IN IF m \in 1..12 /\ d \in 1..DaysInMonth(y, m)
          THEN DateAt((y * 12 + (m - 1)) * 31 + (d - 1))
          ELSE InvalidDate
  ELSE InvalidDate

\* parseDate(dateStr); the empty sequence is the empty string or undefined
\* parseDate reporting an Invalid Date as null (unparsable)
parseDateStrict(dateStr) ==
  IF dateStr = <<>> THEN DateNull
  ELSE LET d == IF MatchesIsoDatePrefix(dateStr) THEN NewDate(dateStr)
                ELSE IF MatchesYearMonth(dateStr)
                     THEN NewDate(dateStr \o <<"-", "0", "1">>)
                ELSE IF MatchesYear(dateStr)
                     THEN NewDate(dateStr \o <<"-", "0", "1", "-", "0", "1">>)
                ELSE NewDate(dateStr)
       IN IF d.valid THEN d ELSE DateNull

parseDate(dateStr) ==
  IF dateStr = <<>> THEN DateNull
  ELSE IF MatchesIsoDatePrefix(dateStr) THEN NewDate(dateStr)
  ELSE IF MatchesYearMonth(dateStr) THEN NewDate(dateStr \o <<"-", "0", "1">>)
  ELSE IF MatchesYear(dateStr)
       THEN NewDate(dateStr \o <<"-", "0", "1", "-", "0", "1">>)
  ELSE LET date == NewDate(dateStr)
       IN IF date.valid THEN date ELSE DateNull

\* a < b on Date values: false when either time is NaN
DateLess(a, b) == a.valid /\ b.valid /\ a.time < b.time

\* a || b on strings and on character sequences
OrStr(a, b) == IF a # "" THEN a ELSE b
OrSeq(a, b) == IF a # <<>> THEN a ELSE b

(***************************************************************************)
(* Content items and the per-node facet predicates (the nodeMatches /      *)
(* directMatch expressions of the filters and the annotators).             *)
(***************************************************************************)
NoItem ==
  [author |-> "", creator |-> "", source |-> "",
   location |-> "", country |-> "", region |-> "",
   date |-> <<>>, published_date |-> <<>>, publish_date |-> <<>>]

\* node.urls || node.content || node.items || []
ItemsOf(node) ==
  IF IsSome(node.urls) THEN Val(node.urls)
  ELSE IF IsSome(node.content) THEN Val(node.content)
  ELSE IF IsSome(node.items) THEN Val(node.items)
  ELSE <<>>

\* node.type === type
typeMatches(node, type) == IsSome(node.type) /\ Val(node.type) = type

\* a tag test that holds for a node with any tag at all:
\* node.tags && node.tags.length > 0
tagMatchesAnyTag(node, tag) == IsSome(node.tags) /\ Val(node.tags) # <<>>

\* node.tags && node.tags.includes(tag), as a boolean
tagMatches(node, tag) == IsSome(node.tags) /\ tag \in Range(Val(node.tags))

\* the same expression as the value JavaScript assigns to node.isTagMatch
tagMatchValue(node, tag) ==
  IF IsSome(node.tags) THEN FlagOf(tag \in Range(Val(node.tags))) ELSE "undefined"

\* the author of an item: item.author || item.creator || item.source
ItemAuthor(item) == OrStr(item.author, OrStr(item.creator, item.source))

authorMatches(node, author) ==
  \E i \in DOMAIN ItemsOf(node) : ItemAuthor(ItemsOf(node)[i]) = author

\* the location of an item: item.location || item.country || item.region
ItemLocation(item) == OrStr(item.location, OrStr(item.country, item.region))

locationMatches(node, location) ==
  \E i \in DOMAIN ItemsOf(node) : ItemLocation(ItemsOf(node)[i]) = location

itemInRange(item, dateFrom, dateTo) ==
  LET itemDate == parseDate(OrSeq(item.date, OrSeq(item.published_date, item.publish_date)))
      fromDate == IF dateFrom # <<>> THEN parseDate(dateFrom) ELSE DateNull
      toDate == IF dateTo # <<>> THEN parseDate(dateTo) ELSE DateNull
  IN IF itemDate.kind = "null" THEN FALSE
     ELSE IF fromDate.kind # "null" /\ DateLess(itemDate, fromDate) THEN FALSE
     ELSE IF toDate.kind # "null" /\ DateLess(toDate, itemDate) THEN FALSE
     ELSE TRUE

dateMatches(node, dateFrom, dateTo) ==
  \E i \in DOMAIN ItemsOf(node) : itemInRange(ItemsOf(node)[i], dateFrom, dateTo)

(***************************************************************************)
(* Tree filters.  Each returns a new object for every surviving node       *)
(* ({...node, children: ...}) or Null.  The facet filters dereference      *)
(* their argument at once, so they are defined on nodes only; the caller   *)
(* models the TypeError of a call on null.                                 *)
(***************************************************************************)
RECURSIVE filterBySearchNamesNoReattach(_, _)
\* filterBySearchNames returning a matched node with its surviving children
\* only: { ...node, children: filteredChildren }
filterBySearchNamesNoReattach(node, matchedNames) ==
  IF IsNull(node) THEN Null
  ELSE IF IsSome(node.children)
       THEN With(NonNull([i \in DOMAIN Val(node.children) |->
                            filterBySearchNamesNoReattach(Val(node.children)[i],
                                                          matchedNames)]),
                 LAMBDA filteredChildren :
                   IF node.name \in matchedNames \/ Len(filteredChildren) > 0
                   THEN [node EXCEPT !.fresh = TRUE,
                                     !.children = Some(filteredChildren)]
                   ELSE Null)
       ELSE IF node.name \in matchedNames THEN [node EXCEPT !.fresh = TRUE]
       ELSE Null

RECURSIVE filterBySearchNames(_, _)
filterBySearchNames(node, matchedNames) ==
  IF IsNull(node) THEN Null
  ELSE LET nodeMatches == node.name \in matchedNames
           filteredChildren ==
             IF IsSome(node.children)
             THEN NonNull([i \in DOMAIN Val(node.children) |->
                             filterBySearchNames(Val(node.children)[i], matchedNames)])
             ELSE <<>>
       IN IF nodeMatches \/ Len(filteredChildren) > 0
          THEN [node EXCEPT !.fresh = TRUE,
                            !.children = IF Len(filteredChildren) > 0
                                         THEN Some(filteredChildren)
                                         ELSE node.children]
          ELSE Null

RECURSIVE filterByTypeSelfOnly(_, _)
\* filterByType keeping a node only when the node itself matches:
\* if (nodeMatches) in place of if (nodeMatches || filteredChildren.length > 0)
filterByTypeSelfOnly(node, type) ==
  IF ~typeMatches(node, type) THEN Null
  ELSE IF IsSome(node.children)
       THEN [node EXCEPT !.fresh = TRUE,
               !.children =
                 Some(NonNull([i \in DOMAIN Val(node.children) |->
                                 filterByTypeSelfOnly(Val(node.children)[i], type)]))]
       ELSE [node EXCEPT !.fresh = TRUE]

RECURSIVE filterByType(_, _)
filterByType(node, type) ==
  LET nodeMatches == typeMatches(node, type)
  IN IF IsSome(node.children)
     THEN LET filteredChildren ==
                NonNull([i \in DOMAIN Val(node.children) |->
                           filterByType(Val(node.children)[i], type)])
          IN IF nodeMatches \/ Len(filteredChildren) > 0
             THEN [node EXCEPT !.fresh = TRUE, !.children = Some(filteredChildren)]
             ELSE Null
     ELSE IF nodeMatches THEN [node EXCEPT !.fresh = TRUE]
     ELSE Null

RECURSIVE filterByTagKeepsBranching(_, _)
\* a tag filter that also keeps a node for having several children:
\* nodeMatches = (node.tags && node.tags.includes(tag)) ||
\*               (node.children && node.children.length > 1)
filterByTagKeepsBranching(node, tag) ==
  LET nodeMatches == tagMatches(node, tag)
                       \/ (IsSome(node.children) /\ Len(Val(node.children)) > 1)
  IN IF IsSome(node.children)
     THEN LET filteredChildren ==
                NonNull([i \in DOMAIN Val(node.children) |->
                           filterByTagKeepsBranching(Val(node.children)[i], tag)])
          IN IF nodeMatches \/ Len(filteredChildren) > 0
             THEN [node EXCEPT !.fresh = TRUE, !.children = Some(filteredChildren)]
             ELSE Null
     ELSE IF nodeMatches THEN [node EXCEPT !.fresh = TRUE]
     ELSE Null

RECURSIVE filterByTag(_, _)
filterByTag(node, tag) ==
  LET nodeMatches == tagMatches(node, tag)
  IN IF IsSome(node.children)
     THEN LET filteredChildren ==
                NonNull([i \in DOMAIN Val(node.children) |->
                           filterByTag(Val(node.children)[i], tag)])
          IN IF nodeMatches \/ Len(filteredChildren) > 0
             THEN [node EXCEPT !.fresh = TRUE, !.children = Some(filteredChildren)]
             ELSE Null
     ELSE IF nodeMatches THEN [node EXCEPT !.fresh = TRUE]
     ELSE Null

RECURSIVE filterByAuthorReattach(_, _)
\* an author filter that reattaches as the search filter does: children:
\* filteredChildren.length > 0 ? filteredChildren : node.children
filterByAuthorReattach(node, author) ==
  LET nodeMatches == authorMatches(node, author)
  IN IF IsSome(node.children)
     THEN LET filteredChildren ==
                NonNull([i \in DOMAIN Val(node.children) |->
                           filterByAuthorReattach(Val(node.children)[i], author)])
          IN IF nodeMatches \/ Len(filteredChildren) > 0
             THEN [node EXCEPT !.fresh = TRUE,
                               !.children = IF Len(filteredChildren) > 0
                                            THEN Some(filteredChildren)
                                            ELSE node.children]
             ELSE Null
     ELSE IF nodeMatches THEN [node EXCEPT !.fresh = TRUE]
     ELSE Null

RECURSIVE filterByAuthor(_, _)
filterByAuthor(node, author) ==
  LET nodeMatches == authorMatches(node, author)
  IN IF IsSome(node.children)
     THEN LET filteredChildren ==
                NonNull([i \in DOMAIN Val(node.children) |->
                           filterByAuthor(Val(node.children)[i], author)])
          IN IF nodeMatches \/ Len(filteredChildren) > 0
             THEN [node EXCEPT !.fresh = TRUE, !.children = Some(filteredChildren)]
             ELSE Null
     ELSE IF nodeMatches THEN [node EXCEPT !.fresh = TRUE]
     ELSE Null

RECURSIVE filterByLocationInPlace(_, _)
\* a location filter that prunes the node it is given instead of a copy:
\* node.children = filteredChildren; return node
filterByLocationInPlace(node, location) ==
  LET nodeMatches == locationMatches(node, location)
  IN IF IsSome(node.children)
     THEN LET filteredChildren ==
                NonNull([i \in DOMAIN Val(node.children) |->
                           filterByLocationInPlace(Val(node.children)[i], location)])
          IN IF nodeMatches \/ Len(filteredChildren) > 0
             THEN [node EXCEPT !.children = Some(filteredChildren)]
             ELSE Null
     ELSE IF nodeMatches THEN node
     ELSE Null

RECURSIVE filterByLocation(_, _)
filterByLocation(node, location) ==
  LET nodeMatches == locationMatches(node, location)
  IN IF IsSome(node.children)
     THEN LET filteredChildren ==
                NonNull([i \in DOMAIN Val(node.children) |->
                           filterByLocation(Val(node.children)[i], location)])
          IN IF nodeMatches \/ Len(filteredChildren) > 0
             THEN [node EXCEPT !.fresh = TRUE, !.children = Some(filteredChildren)]
             ELSE Null
     ELSE IF nodeMatches THEN [node EXCEPT !.fresh = TRUE]
     ELSE Null

RECURSIVE filterByDateRange(_, _, _)
filterByDateRange(node, dateFrom, dateTo) ==
  LET nodeMatches == dateMatches(node, dateFrom, dateTo)
  IN IF IsSome(node.children)
     THEN LET filteredChildren ==
                NonNull([i \in DOMAIN Val(node.children) |->
                           filterByDateRange(Val(node.children)[i], dateFrom, dateTo)])
          IN IF nodeMatches \/ Len(filteredChildren) > 0
             THEN [node EXCEPT !.fresh = TRUE, !.children = Some(filteredChildren)]
             ELSE Null
     ELSE IF nodeMatches THEN [node EXCEPT !.fresh = TRUE]
     ELSE Null

(***************************************************************************)
(* Match annotators.  Each writes its flags onto the node objects it is    *)
(* given and returns whether the node or a descendant matched: the result  *)
(* is the record of the node after the writes ("node") and the returned    *)
(* boolean ("ret").                                                        *)
(***************************************************************************)
RECURSIVE markSearchHighlightsByNameWritesBoth(_, _)
\* markSearchHighlightsByName writing the second flag in every case:
\* node.hasMatchedDescendants = hasMatchedDescendants
markSearchHighlightsByNameWritesBoth(node, matchedNames) ==
  IF IsNull(node) THEN [node |-> Null, ret |-> FALSE]
  ELSE LET directMatch == node.name \in matchedNames
           marked ==
             IF IsSome(node.children)
             THEN [i \in DOMAIN Val(node.children) |->
                     markSearchHighlightsByNameWritesBoth(Val(node.children)[i],
                                                          matchedNames)]
             ELSE <<>>
           hasMatchedDescendants == \E i \in DOMAIN marked : marked[i].ret
       IN [node |-> [node EXCEPT
                       !.flags =
                         SetFlag(SetFlag(node.flags, "isSearchMatch",
                                         FlagOf(directMatch \/ hasMatchedDescendants)),
                                 "hasMatchedDescendants", FlagOf(hasMatchedDescendants)),
                       !.children = IF IsSome(node.children)
                                    THEN Some([i \in DOMAIN marked |-> marked[i].node])
                                    ELSE node.children],
           ret |-> directMatch \/ hasMatchedDescendants]

RECURSIVE markSearchHighlightsByName(_, _)
markSearchHighlightsByName(node, matchedNames) ==
  IF IsNull(node) THEN [node |-> Null, ret |-> FALSE]
  ELSE LET directMatch == node.name \in matchedNames
           marked ==
             IF IsSome(node.children)
             THEN [i \in DOMAIN Val(node.children) |->
                     markSearchHighlightsByName(Val(node.children)[i], matchedNames)]
             ELSE <<>>
           hasMatchedDescendants == \E i \in DOMAIN marked : marked[i].ret
           flags1 == SetFlag(node.flags, "isSearchMatch", FlagOf(directMatch))
           flags2 == IF hasMatchedDescendants
                     THEN SetFlag(SetFlag(flags1, "hasMatchedDescendants", "true"), "isSearchMatch", "true")
                     ELSE flags1
       IN [node |-> [node EXCEPT
                       !.flags = flags2,
                       !.children = IF IsSome(node.children)
                                    THEN Some([i \in DOMAIN marked |-> marked[i].node])
                                    ELSE node.children],
           ret |-> directMatch \/ hasMatchedDescendants]

RECURSIVE markTypeMatchesNoPropagate(_, _)
\* markTypeMatches without the statement node.isTypeMatch = true for a node
\* with a matching descendant
markTypeMatchesNoPropagate(node, type) ==
  IF IsNull(node) THEN [node |-> Null, ret |-> FALSE]
  ELSE LET directMatch == typeMatches(node, type)
           marked ==
             IF IsSome(node.children)
             THEN [i \in DOMAIN Val(node.children) |->
                     markTypeMatchesNoPropagate(Val(node.children)[i], type)]
             ELSE <<>>
           hasMatchedDescendants == \E i \in DOMAIN marked : marked[i].ret
           flags1 == SetFlag(node.flags, "isTypeMatch", FlagOf(directMatch))
       IN [node |-> [node EXCEPT
                       !.flags = IF hasMatchedDescendants
                                 THEN SetFlag(flags1, "hasTypeMatchedDescendants", "true")
                                 ELSE flags1,
                       !.children = IF IsSome(node.children)
                                    THEN Some([i \in DOMAIN marked |-> marked[i].node])
                                    ELSE node.children],
           ret |-> directMatch \/ hasMatchedDescendants]

RECURSIVE markTypeMatches(_, _)
markTypeMatches(node, type) ==
  IF IsNull(node) THEN [node |-> Null, ret |-> FALSE]
  ELSE LET directMatch == typeMatches(node, type)
           marked ==
             IF IsSome(node.children)
             THEN [i \in DOMAIN Val(node.children) |->
                     markTypeMatches(Val(node.children)[i], type)]
             ELSE <<>>
           hasMatchedDescendants == \E i \in DOMAIN marked : marked[i].ret
           flags1 == SetFlag(node.flags, "isTypeMatch", FlagOf(directMatch))
           flags2 == IF hasMatchedDescendants
                     THEN SetFlag(SetFlag(flags1, "hasTypeMatchedDescendants", "true"), "isTypeMatch", "true")
                     ELSE flags1
       IN [node |-> [node EXCEPT
                       !.flags = flags2,
                       !.children = IF IsSome(node.children)
                                    THEN Some([i \in DOMAIN marked |-> marked[i].node])
                                    ELSE node.children],
           ret |-> directMatch \/ hasMatchedDescendants]

RECURSIVE markTagMatches(_, _)
markTagMatches(node, tag) ==
  IF IsNull(node) THEN [node |-> Null, ret |-> FALSE]
  ELSE LET directMatch == tagMatches(node, tag)
           marked ==
             IF IsSome(node.children)
             THEN [i \in DOMAIN Val(node.children) |->
                     markTagMatches(Val(node.children)[i], tag)]
             ELSE <<>>
           hasMatchedDescendants == \E i \in DOMAIN marked : marked[i].ret
           flags1 == SetFlag(node.flags, "isTagMatch", tagMatchValue(node, tag))
           flags2 == IF hasMatchedDescendants
                     THEN SetFlag(SetFlag(flags1, "hasTagMatchedDescendants", "true"), "isTagMatch", "true")
                     ELSE flags1
       IN [node |-> [node EXCEPT
                       !.flags = flags2,
                       !.children = IF IsSome(node.children)
                                    THEN Some([i \in DOMAIN marked |-> marked[i].node])
                                    ELSE node.children],
           ret |-> directMatch \/ hasMatchedDescendants]

RECURSIVE markAuthorMatches(_, _)
markAuthorMatches(node, author) ==
  IF IsNull(node) THEN [node |-> Null, ret |-> FALSE]
  ELSE LET directMatch == authorMatches(node, author)
           marked ==
             IF IsSome(node.children)
             THEN [i \in DOMAIN Val(node.children) |->
                     markAuthorMatches(Val(node.children)[i], author)]
             ELSE <<>>
           hasMatchedDescendants == \E i \in DOMAIN marked : marked[i].ret
           flags1 == SetFlag(node.flags, "isAuthorMatch", FlagOf(directMatch))
           flags2 == IF hasMatchedDescendants
                     THEN SetFlag(SetFlag(flags1, "hasAuthorMatchedDescendants", "true"), "isAuthorMatch", "true")
                     ELSE flags1
       IN [node |-> [node EXCEPT
                       !.flags = flags2,
                       !.children = IF IsSome(node.children)
                                    THEN Some([i \in DOMAIN marked |-> marked[i].node])
                                    ELSE node.children],
           ret |-> directMatch \/ hasMatchedDescendants]

RECURSIVE markLocationMatches(_, _)
markLocationMatches(node, location) ==
  IF IsNull(node) THEN [node |-> Null, ret |-> FALSE]
  ELSE LET directMatch == locationMatches(node, location)
           marked ==
             IF IsSome(node.children)
             THEN [i \in DOMAIN Val(node.children) |->
                     markLocationMatches(Val(node.children)[i], location)]
             ELSE <<>>
           hasMatchedDescendants == \E i \in DOMAIN marked : marked[i].ret
           flags1 == SetFlag(node.flags, "isLocationMatch", FlagOf(directMatch))
           flags2 == IF hasMatchedDescendants
                     THEN SetFlag(SetFlag(flags1, "hasLocationMatchedDescendants", "true"), "isLocationMatch", "true")
                     ELSE flags1
       IN [node |-> [node EXCEPT
                       !.flags = flags2,
                       !.children = IF IsSome(node.children)
                                    THEN Some([i \in DOMAIN marked |-> marked[i].node])
                                    ELSE node.children],
           ret |-> directMatch \/ hasMatchedDescendants]

RECURSIVE markDateMatches(_, _, _)
markDateMatches(node, dateFrom, dateTo) ==
  IF IsNull(node) THEN [node |-> Null, ret |-> FALSE]
  ELSE LET directMatch == dateMatches(node, dateFrom, dateTo)
           marked ==
             IF IsSome(node.children)
             THEN [i \in DOMAIN Val(node.children) |->
                     markDateMatches(Val(node.children)[i], dateFrom, dateTo)]
             ELSE <<>>
           hasMatchedDescendants == \E i \in DOMAIN marked : marked[i].ret
           flags1 == SetFlag(node.flags, "isDateMatch", FlagOf(directMatch))
           flags2 == IF hasMatchedDescendants
                     THEN SetFlag(SetFlag(flags1, "hasDateMatchedDescendants", "true"), "isDateMatch", "true")
                     ELSE flags1
       IN [node |-> [node EXCEPT
                       !.flags = flags2,
                       !.children = IF IsSome(node.children)
                                    THEN Some([i \in DOMAIN marked |-> marked[i].node])
                                    ELSE node.children],
           ret |-> directMatch \/ hasMatchedDescendants]

(***************************************************************************)
(* Query strings.  A query is the sequence of its blank-separated words    *)
(* (the caller trims it; words are separated by single blanks).  The       *)
(* keywords are matched case-insensitively (/i).                           *)
(***************************************************************************)
OrWords == {"OR", "or"}
AndWords == {"AND", "and"}
NotWords == {"NOT", "not"}
OpWords == OrWords \cup AndWords \cup NotWords

\* /\b(W)\b/i.test(query) for the keywords W
HasWord(query, W) == \E i \in DOMAIN query : query[i] \in W

SubSeqFrom(s, a) == SubSeq(s, a, Len(s))

RECURSIVE SplitFrom(_, _, _, _)
\* query.split(/\s+W\s+/i): a keyword splits when a word stands on both of
\* its sides and the blank before it was not consumed by the previous
\* match; start is the first word of the current part, i the word examined.
SplitFrom(query, W, start, i) ==
  IF i >= Len(query) THEN <<SubSeq(query, start, Len(query))>>
  ELSE IF query[i] \in W /\ i > start
       THEN <<SubSeq(query, start, i - 1)>> \o SplitFrom(query, W, i + 1, i + 1)
       ELSE SplitFrom(query, W, start, i + 1)

Split(query, W) == SplitFrom(query, W, 1, 1)

\* containsBooleanOperators(query)
containsBooleanOperators(query) == HasWord(query, OpWords)

\* cleanSearchTerm(term): the keywords removed, blanks collapsed, trimmed
cleanSearchTerm(term) == SelectSeq(term, LAMBDA w : w \notin OpWords)

(***************************************************************************)
(* Quoted phrases: the words of the vocabulary that carry a double quote.  *)
(***************************************************************************)
OpenQuoted == {"\"solar\"", "\"solar"}
CloseQuoted == {"\"solar\"", "wind\""}

\* word.slice(1): the leading quote dropped
DropOpenQuote(w) ==
  CASE w = "\"solar\"" -> "solar\"" [] w = "\"solar" -> "solar" [] OTHER -> w

\* word.slice(0, -1): the trailing quote dropped
DropCloseQuote(w) ==
  CASE w = "solar\"" -> "solar" [] w = "wind\"" -> "wind" [] OTHER -> w

\* cleanTerm.startsWith('"') && cleanTerm.endsWith('"')
IsQuoted(cleanTerm) ==
  cleanTerm[1] \in OpenQuoted /\ cleanTerm[Len(cleanTerm)] \in CloseQuoted

\* cleanTerm.slice(1, -1)
StripQuotes(cleanTerm) ==
  LET a == [cleanTerm EXCEPT ![1] = DropOpenQuote(cleanTerm[1])]
  IN [a EXCEPT ![Len(a)] = DropCloseQuote(a[Len(a)])]

(***************************************************************************)
(* The text index (MiniSearch, an external library).  An index holds the   *)
(* documents added to it, for every word the documents it matches in       *)
(* prefix + fuzzy mode ("loose") and in exact mode ("exact") with the      *)
(* score of each match, the result of the empty query ("all"), and the     *)
(* terms on which a search throws ("throws").  With combineWith AND a      *)
(* document matches a term when it matches every word of the term, and     *)
(* its score is the sum of the scores of the words.                        *)
(***************************************************************************)
RECURSIVE InsertByScore(_, _)
\* r placed after every element whose score is at least r's
InsertByScore(sorted, r) ==
  IF sorted = <<>> THEN <<r>>
  ELSE IF Head(sorted).score >= r.score
       THEN <<Head(sorted)>> \o InsertByScore(Tail(sorted), r)
       ELSE <<r>> \o sorted

RECURSIVE SortByScore(_)
\* results.sort((a, b) => b.score - a.score): descending, stable
SortByScore(results) ==
  IF results = <<>> THEN <<>>
  ELSE InsertByScore(SortByScore(SubSeq(results, 1, Len(results) - 1)),
                     results[Len(results)])

RECURSIVE SumScores(_, _, _)
SumScores(tbl, words, id) ==
  IF words = <<>> THEN 0
  ELSE tbl[Head(words)][id] + SumScores(tbl, Tail(words), id)

\* the documents of ids, in the order of the index, with their scores for term
Scored(idx, tbl, term, ids) ==
  With(SelectSeq(idx.docs, LAMBDA d : d.id \in ids),
       LAMBDA hit :
         [i \in DOMAIN hit |->
            [id |-> hit[i].id, name |-> hit[i].name,
             score |-> SumScores(tbl, term, hit[i].id)]])

\* searchIndexInstance.search(term, options): the matches of term by
\* descending score, or an exception when the index rejects the term
IndexSearch(idx, term, prefix) ==
  With(IF prefix THEN idx.loose ELSE idx.exact,
       LAMBDA tbl :
         [exc |-> term \in idx.throws,
          results |->
            IF term = <<>>
            THEN Scored(idx, tbl, term, idx.all)
            ELSE IF \E i \in DOMAIN term : term[i] \notin DOMAIN tbl
            THEN <<>>
            ELSE SortByScore(
                   Scored(idx, tbl, term,
                          {d \in {idx.docs[k].id : k \in DOMAIN idx.docs} :
                             \A i \in DOMAIN term : tbl[term[i]][d] > 0}))])

(***************************************************************************)
(* The boolean query evaluator.  Every function returns the record of      *)
(* whether an exception escaped it ("exc"), the ResultSet it returned      *)
(* ("results") and the calls it made to the index, in order ("calls").     *)
(***************************************************************************)
Call(term, prefix, fuzzy, combineWith) ==
  [term |-> term, prefix |-> prefix, fuzzy |-> fuzzy, combineWith |-> combineWith]

Returned(results, calls) == [exc |-> FALSE, results |-> results, calls |-> calls]
Thrown(calls) == [exc |-> TRUE, results |-> <<>>, calls |-> calls]

Ids(results) == {results[i].id : i \in DOMAIN results}

\* results.filter(result => !excludeIds.has(result.id))
Without(results, excludeIds) == SelectSeq(results, LAMBDA r : r.id \notin excludeIds)

\* results.filter(result => partIds.has(result.id))
Within(results, partIds) == SelectSeq(results, LAMBDA r : r.id \in partIds)

\* what a function returns after the calls made before it ran the search r:
\* r's exception or r's results, with the calls of both
After(calls, r) == [r EXCEPT !.calls = calls \o r.calls]

\* a try block of searchSingleTerm without the branch for quoted phrases:
\* every term is searched as it is with prefix: true, fuzzy: 0.2
TrySearchLoose(cleanTerm, idx, caught) ==
  With(IndexSearch(idx, cleanTerm, TRUE),
       LAMBDA got :
         [exc |-> got.exc /\ ~caught,
          results |-> IF got.exc THEN <<>> ELSE got.results,
          calls |-> <<Call(cleanTerm, TRUE, "0.2", "AND")>>])

\* the try block of searchSingleTerm on the cleaned term, when the catch
\* clause catches (caught) or not
TrySearch(cleanTerm, idx, caught) ==
  With(IsQuoted(cleanTerm),
       LAMBDA quoted :
         With(IF quoted THEN StripQuotes(cleanTerm) ELSE cleanTerm,
              LAMBDA asked :
                With(IndexSearch(idx, asked, ~quoted),
                     LAMBDA got :
                       [exc |-> got.exc /\ ~caught,
                        results |-> IF got.exc THEN <<>> ELSE got.results,
                        calls |-> <<Call(asked, ~quoted,
                                         IF quoted THEN "0.1" ELSE "0.2", "AND")>>])))

\* searchSingleTerm with the catch clause removed
searchSingleTermNoCatch(term, idx) ==
  IF term = <<>> \/ cleanSearchTerm(term) = <<>> THEN Returned(<<>>, <<>>)
  ELSE TrySearch(cleanSearchTerm(term), idx, FALSE)

\* searchSingleTerm(term, searchIndexInstance)
searchSingleTerm(term, idx) ==
  IF term = <<>> \/ cleanSearchTerm(term) = <<>> THEN Returned(<<>>, <<>>)
  ELSE TrySearch(cleanSearchTerm(term), idx, TRUE)

RECURSIVE AndLoop(_, _, _, _, _)
\* a turn of the loop of handleAndSearch that does not intersect: the
\* statement results = results.filter(...) left out
AndStepNoFilter(andParts, i, results, calls, idx, partResults) ==
  IF partResults.exc THEN Thrown(calls \o partResults.calls)
  ELSE IF results = <<>> THEN Returned(results, calls \o partResults.calls)
  ELSE AndLoop(andParts, i + 1, results, calls \o partResults.calls, idx)

\* one turn of the for loop of handleAndSearch with the results of its part
AndStep(andParts, i, results, calls, idx, partResults) ==
  IF partResults.exc THEN Thrown(calls \o partResults.calls)
  ELSE With(Within(results, Ids(partResults.results)),
            LAMBDA kept :
              IF kept = <<>> THEN Returned(kept, calls \o partResults.calls)
              ELSE AndLoop(andParts, i + 1, kept, calls \o partResults.calls, idx))

\* the for loop of handleAndSearch, from part i on
AndLoop(andParts, i, results, calls, idx) ==
  IF i > Len(andParts) THEN Returned(results, calls)
  ELSE IF andParts[i] = <<>> THEN AndLoop(andParts, i + 1, results, calls, idx)
  ELSE AndStep(andParts, i, results, calls, idx, searchSingleTerm(andParts[i], idx))

\* results.sort(...) on what a loop returned
Sorted(r) == [r EXCEPT !.results = SortByScore(r.results)]

\* handleAndSearch after its first search
AndRest(andParts, first, idx) ==
  IF first.exc THEN first
  ELSE Sorted(AndLoop(andParts, 2, first.results, first.calls, idx))

\* handleAndSearch(queryText, searchIndexInstance)
handleAndSearch(queryText, idx) ==
  AndRest(Split(queryText, AndWords),
          searchSingleTerm(Split(queryText, AndWords)[1], idx), idx)

\* a forEach body of handleOrSearch that drops a document found again by a
\* later part: allResults.delete(result.id) when the id is already there
MapSetDropsRepeated(allResults, result, at) ==
  IF at = {} THEN Append(allResults, result)
  ELSE SelectSeq(allResults, LAMBDA r : r.id # result.id)

\* a forEach body of handleOrSearch that keeps the first result of a
\* document: if (!allResults.has(result.id)) allResults.set(result.id, result)
MapSetKeepsFirst(allResults, result, at) ==
  IF at = {} THEN Append(allResults, result) ELSE allResults

\* allResults.set(result.id, result) when the id is new or the score higher
MapSet(allResults, result, at) ==
  IF at = {} THEN Append(allResults, result)
  ELSE IF allResults[CHOOSE k \in at : TRUE].score < result.score
       THEN [allResults EXCEPT ![CHOOSE k \in at : TRUE] = result]
       ELSE allResults

RECURSIVE MapSetAll(_, _)
\* partResults.forEach(result => ...) of handleOrSearch on the Map allResults,
\* kept as the sequence of its values in insertion order
MapSetAll(allResults, partResults) ==
  IF partResults = <<>> THEN allResults
  ELSE MapSetAll(MapSet(allResults, Head(partResults),
                        {k \in DOMAIN allResults :
                           allResults[k].id = Head(partResults).id}),
                 Tail(partResults))

RECURSIVE executeBooleanSearch(_, _)

\* handleOrSearch(queryText, searchIndexInstance).  When the
\* query has no splitting OR its only part is the query itself; if that part
\* holds AND or NOT, executeBooleanSearch on it comes back here with the same
\* argument, and the recursion ends in a RangeError (stack overflow).
handleOrSearch(queryText, idx) ==
  LET RECURSIVE OrLoop(_, _, _, _)
      OrStep(orParts, i, allResults, calls, partResults) ==
        IF partResults.exc THEN Thrown(calls \o partResults.calls)
        ELSE OrLoop(orParts, i + 1, MapSetAll(allResults, partResults.results),
                    calls \o partResults.calls)
      \* orParts.forEach(part => ...), from part i on
      OrLoop(orParts, i, allResults, calls) ==
        IF i > Len(orParts) THEN Returned(SortByScore(allResults), calls)
        ELSE OrStep(orParts, i, allResults, calls,
                    IF HasWord(orParts[i], AndWords \cup NotWords)
                    THEN executeBooleanSearch(orParts[i], idx)
                    ELSE searchSingleTerm(orParts[i], idx))
      Parts(orParts) ==
        IF Len(orParts) = 1 /\ HasWord(orParts[1], AndWords \cup NotWords)
        THEN Thrown(<<>>)
        ELSE OrLoop(orParts, 1, <<>>, <<>>)
  IN Parts(Split(queryText, OrWords))

\* the position of the NOT of /^(.+?)\s+NOT\s+(.+)$/i: the first NOT with a
\* word on both sides (0 when there is none)
NotAt(queryText) ==
  With({i \in 2..(Len(queryText) - 1) : queryText[i] \in NotWords},
       LAMBDA at : IF at = {} THEN 0 ELSE CHOOSE i \in at : \A j \in at : i <= j)

\* handleNotSearch returning the include results unfiltered
SubtractNothing(first, second) ==
  IF first.exc THEN first
  ELSE IF second.exc THEN After(first.calls, second)
  ELSE Returned(first.results, first.calls \o second.calls)

\* the subtraction of handleNotSearch: the results of the first search less
\* the ids of the second, or the exception of either
Subtract(first, second) ==
  IF first.exc THEN first
  ELSE IF second.exc THEN After(first.calls, second)
  ELSE Returned(Without(first.results, Ids(second.results)),
                first.calls \o second.calls)

\* the branch of handleNotSearch for "NOT <exclude>"
NotAtStart(queryText, idx) ==
  IF Len(queryText) >= 2 /\ queryText[1] \in NotWords
  THEN With(cleanSearchTerm(SubSeqFrom(queryText, 2)),
            LAMBDA excludeTerm :
              IF excludeTerm # <<>>
              THEN With(IndexSearch(idx, <<>>, TRUE),
                        LAMBDA allResults :
                          Subtract([exc |-> allResults.exc,
                                    results |-> allResults.results,
                                    calls |-> <<Call(<<>>, TRUE, "default", "default")>>],
                                   IF allResults.exc THEN Thrown(<<>>)
                                   ELSE searchSingleTerm(excludeTerm, idx)))
              ELSE Returned(<<>>, <<>>))
  ELSE Returned(<<>>, <<>>)

\* the branch of handleNotSearch for "<include> NOT <exclude>", the NOT at n
IncludeNotExclude(queryText, n, idx) ==
  With(IF HasWord(SubSeq(queryText, 1, n - 1), AndWords \cup OrWords)
       THEN executeBooleanSearch(SubSeq(queryText, 1, n - 1), idx)
       ELSE searchSingleTerm(SubSeq(queryText, 1, n - 1), idx),
       LAMBDA includeResults :
         Subtract(includeResults,
                  IF includeResults.exc THEN Thrown(<<>>)
                  ELSE searchSingleTerm(SubSeqFrom(queryText, n + 1), idx)))

\* handleNotSearch guessing at a query of neither form: the words left of it
\* are searched as a single term instead of return []
handleNotSearchGuess(queryText, idx) ==
  IF NotAt(queryText) = 0
  THEN IF queryText[1] \in NotWords THEN NotAtStart(queryText, idx)
       ELSE searchSingleTerm(queryText, idx)
  ELSE IncludeNotExclude(queryText, NotAt(queryText), idx)

\* handleNotSearch(queryText, searchIndexInstance)
handleNotSearch(queryText, idx) ==
  IF NotAt(queryText) = 0 THEN NotAtStart(queryText, idx)
  ELSE IncludeNotExclude(queryText, NotAt(queryText), idx)

\* the fallback of executeBooleanSearch: search(queryText, { prefix: true })
FallbackSearch(queryText, idx) ==
  With(IndexSearch(idx, queryText, TRUE),
       LAMBDA got : [exc |-> got.exc, results |-> got.results,
                     calls |-> <<Call(queryText, TRUE, "default", "default")>>])

\* executeBooleanSearch(queryText, searchIndexInstance)
executeBooleanSearch(queryText, idx) ==
  IF HasWord(queryText, OrWords) THEN handleOrSearch(queryText, idx)
  ELSE IF HasWord(queryText, AndWords) THEN handleAndSearch(queryText, idx)
  ELSE IF HasWord(queryText, NotWords) THEN handleNotSearch(queryText, idx)
  ELSE FallbackSearch(queryText, idx)

(***************************************************************************)
(* initializeSearch: the document extractor and the index built from its   *)
(* documents.  MiniSearch lower-cases and splits the indexed text; a       *)
(* document's words are those of its name, its tags, its items' authors    *)
(* and its breadcrumb path.  A word found in the name scores 3 (the name   *)
(* boost), a word found elsewhere scores 1.                                *)
(***************************************************************************)
\* the lower-cased word of a name or of an author
Lower(w) ==
  CASE w = "Root" -> "root" [] w = "Energy" -> "energy"
    [] w = "Solar" -> "solar" [] w = "Wind" -> "wind"
    [] w = "Ann" -> "ann" [] OTHER -> w

IndexWords == {"root", "energy", "solar", "wind", "ann", "sol"}

\* a is b or a proper prefix of b, among the words of the vocabulary
IsPrefixOf(a, b) == a = b \/ (a = "sol" /\ b = "solar")

RECURSIVE extractDocsSkipsSubtree(_, _, _)
\* an extractDocs that returns at a node without a name, before the
\* recursion to its children: if (!nodeName) return
extractDocsSkipsSubtree(node, path, documents) ==
  LET nodeName == node.name
      currentPath == Append(path, nodeName)
      pushed == Append(documents,
                       [id |-> Len(documents), name |-> nodeName,
                        text |-> {Lower(currentPath[i]) : i \in DOMAIN currentPath},
                        node |-> node.id])
      RECURSIVE Walk(_, _)
      Walk(i, docs) ==
        IF i > Len(Val(node.children)) THEN docs
        ELSE Walk(i + 1, extractDocsSkipsSubtree(Val(node.children)[i], currentPath, docs))
  IN IF nodeName = "" THEN documents
     ELSE IF IsSome(node.children) THEN Walk(1, pushed) ELSE pushed

RECURSIVE extractDocs(_, _, _)
\* extractDocs(node, path) of initializeSearch, with the documents pushed so
\* far; returns the documents list after the walk of node's subtree
extractDocs(node, path, documents) ==
  LET nodeName == node.name
      currentPath == Append(path, nodeName)
      items == ItemsOf(node)
      text == (IF nodeName # "" THEN {Lower(nodeName)} ELSE {})
              \cup (IF IsSome(node.tags) THEN Range(Val(node.tags)) ELSE {})
              \cup {Lower(OrStr(items[i].author, items[i].creator)) :
                      i \in {j \in DOMAIN items :
                               OrStr(items[j].author, items[j].creator) # ""}}
              \cup {Lower(currentPath[i]) :
                      i \in {j \in DOMAIN currentPath : currentPath[j] # ""}}
      pushed == IF nodeName # ""
                THEN Append(documents,
                            [id |-> Len(documents), name |-> nodeName,
                             text |-> text, node |-> node.id])
                ELSE documents
      RECURSIVE Walk(_, _)
      Walk(i, docs) ==
        IF i > Len(Val(node.children)) THEN docs
        ELSE Walk(i + 1, extractDocs(Val(node.children)[i], currentPath, docs))
  IN IF IsSome(node.children) THEN Walk(1, pushed) ELSE pushed

\* the score of word w in document d: MiniSearch's term match, by mode
WordScore(d, w, prefix) ==
  IF \E t \in d.text : IF prefix THEN IsPrefixOf(w, t) ELSE w = t
  THEN (IF (IF prefix THEN IsPrefixOf(w, Lower(d.name)) ELSE w = Lower(d.name))
        THEN 3 ELSE 1)
  ELSE 0

\* initializeSearch(data): new MiniSearch(...) and addAll(documents).  The
\* result of the empty query ("all") and the terms the index rejects
\* ("throws") belong to the library and are given.
initializeSearch(data, all, throws) ==
  LET documents == extractDocs(data, <<>>, <<>>)
      byId(id) == CHOOSE d \in Range(documents) : d.id = id
      ids == {documents[k].id : k \in DOMAIN documents}
  IN [docs |-> documents,
      loose |-> [w \in IndexWords |-> [id \in ids |-> WordScore(byId(id), w, TRUE)]],
      exact |-> [w \in IndexWords |-> [id \in ids |-> WordScore(byId(id), w, FALSE)]],
      all |-> IF all THEN ids ELSE {},
      throws |-> throws]

(***************************************************************************)
(* getFilteredData.  The value of the local variable data is a node, Null  *)
(* or, once an exception has been raised, Exception (the statements after  *)
(* the raise are not executed).                                            *)
(***************************************************************************)
Exception == [kind |-> "exception"]
Skipped == [kind |-> "skipped"]
IsNode(n) == n.kind = "node"

RECURSIVE SharedObjects(_)
\* the objects of the source tree reachable from node (not copies of them)
SharedObjects(node) ==
  IF ~IsNode(node) THEN {}
  ELSE IF ~node.fresh THEN {node}
  ELSE IF IsSome(node.children)
       THEN UNION {SharedObjects(Val(node.children)[i]) : i \in DOMAIN Val(node.children)}
       ELSE {}

RECURSIVE WithWrites(_, _)
\* the source tree after the writes made through the shared objects
WithWrites(src, shared) ==
  IF \E o \in shared : o.id = src.id
  THEN CHOOSE o \in shared : o.id = src.id
  ELSE IF IsSome(src.children)
       THEN [src EXCEPT !.children =
               Some([i \in DOMAIN Val(src.children) |->
                       WithWrites(Val(src.children)[i], shared)])]
       ELSE src

NoArgs ==
  [query |-> <<>>, type |-> "all", tag |-> "all", author |-> "all",
   location |-> "all", dateFrom |-> <<>>, dateTo |-> <<>>]

\* The run so far: the value of the local variable data, the matched-name
\* set (None while matchedNames is null), the ResultSet of the query (the
\* local variable results), the calls made to the index and the value data
\* had after each stage ("skipped" for a stage not run).
StartRun(globalData) ==
  [data |-> globalData, matchedNames |-> None, results |-> <<>>, calls |-> <<>>,
   afterSearch |-> Skipped, afterType |-> Skipped, afterTag |-> Skipped,
   afterAuthor |-> Skipped, afterLocation |-> Skipped, afterDate |-> Skipped]

\* the ResultSet of a query, as getFilteredData computes it:
\* containsBooleanOperators(searchQuery) ? executeBooleanSearch(...)
\*                                        : searchSingleTerm(...)
evaluateQuery(searchQuery, idx) ==
  IF containsBooleanOperators(searchQuery)
  THEN executeBooleanSearch(searchQuery, idx)
  ELSE searchSingleTerm(searchQuery, idx)

\* name.trim(), on the names of the vocabulary
Trim(name) == IF name = " " THEN "" ELSE name

\* a search stage that keeps every name of the ResultSet in the Set:
\* matchedNames = new Set(results.map(r => r.name))
SearchStageKeepsBlank(st, searchQuery, idx) ==
  IF searchQuery = <<>> THEN st
  ELSE With(evaluateQuery(searchQuery, idx),
            LAMBDA results :
              IF results.exc
              THEN [st EXCEPT !.data = Exception, !.calls = results.calls,
                              !.afterSearch = Exception]
              ELSE With({results.results[i].name : i \in DOMAIN results.results},
                        LAMBDA matchedNames :
                          With(filterBySearchNames(st.data, matchedNames),
                               LAMBDA data :
                                 [st EXCEPT !.data = data,
                                            !.results = results.results,
                                            !.calls = results.calls,
                                            !.matchedNames = Some(matchedNames),
                                            !.afterSearch = data])))

\* if (searchQuery) { ... data = filterBySearchNames(data, matchedNames) }
SearchStage(st, searchQuery, idx) ==
  IF searchQuery = <<>> THEN st
  ELSE With(evaluateQuery(searchQuery, idx),
            LAMBDA results :
              IF results.exc
              THEN [st EXCEPT !.data = Exception, !.calls = results.calls,
                              !.afterSearch = Exception]
              ELSE With({results.results[i].name :
                           i \in {j \in DOMAIN results.results :
                                    /\ results.results[j].name # ""
                                    /\ Trim(results.results[j].name) # ""}},
                        LAMBDA matchedNames :
                          With(filterBySearchNames(st.data, matchedNames),
                               LAMBDA data :
                                 [st EXCEPT !.data = data,
                                            !.results = results.results,
                                            !.calls = results.calls,
                                            !.matchedNames = Some(matchedNames),
                                            !.afterSearch = data])))

\* A facet filter called on data: every facet filter reads a property of its
\* argument first, which raises a TypeError when data is null.
OnData(data, filtered) == IF IsNull(data) THEN Exception ELSE filtered

\* the type stage without the test of the sentinel: data = filterByType(data,
\* currentType) whatever currentType is
TypeStageNoSentinel(st, currentType) ==
  IF st.data = Exception THEN st
  ELSE With(OnData(st.data, filterByType(st.data, currentType)),
            LAMBDA data : [st EXCEPT !.data = data, !.afterType = data])

\* if (currentType !== 'all') data = filterByType(data, currentType)
TypeStage(st, currentType) ==
  IF st.data = Exception \/ currentType = "all" THEN st
  ELSE With(OnData(st.data, filterByType(st.data, currentType)),
            LAMBDA data : [st EXCEPT !.data = data, !.afterType = data])

\* if (currentTag !== 'all') data = filterByTag(data, currentTag)
TagStage(st, currentTag) ==
  IF st.data = Exception \/ currentTag = "all" THEN st
  ELSE With(OnData(st.data, filterByTag(st.data, currentTag)),
            LAMBDA data : [st EXCEPT !.data = data, !.afterTag = data])

\* if (currentAuthor !== 'all') data = filterByAuthor(data, currentAuthor)
AuthorStage(st, currentAuthor) ==
  IF st.data = Exception \/ currentAuthor = "all" THEN st
  ELSE With(OnData(st.data, filterByAuthor(st.data, currentAuthor)),
            LAMBDA data : [st EXCEPT !.data = data, !.afterAuthor = data])

\* if (currentLocation !== 'all') data = filterByLocation(data, currentLocation)
LocationStage(st, currentLocation) ==
  IF st.data = Exception \/ currentLocation = "all" THEN st
  ELSE With(OnData(st.data, filterByLocation(st.data, currentLocation)),
            LAMBDA data : [st EXCEPT !.data = data, !.afterLocation = data])

\* if (dateFrom || dateTo) data = filterByDateRange(data, dateFrom, dateTo)
DateStage(st, dateFrom, dateTo) ==
  IF st.data = Exception \/ (dateFrom = <<>> /\ dateTo = <<>>) THEN st
  ELSE With(OnData(st.data, filterByDateRange(st.data, dateFrom, dateTo)),
            LAMBDA data : [st EXCEPT !.data = data, !.afterDate = data])

\* if (matchedNames) markSearchHighlightsByName(data, matchedNames)
MarkSearchStage(st) ==
  IF st.data = Exception \/ ~IsSome(st.matchedNames) THEN st
  ELSE [st EXCEPT !.data =
          markSearchHighlightsByName(st.data, Val(st.matchedNames)).node]

\* the five if (...) markXMatches(data, ...) statements
MarkTypeStage(st, currentType) ==
  IF st.data = Exception \/ currentType = "all" THEN st
  ELSE [st EXCEPT !.data = markTypeMatches(st.data, currentType).node]

MarkTagStage(st, currentTag) ==
  IF st.data = Exception \/ currentTag = "all" THEN st
  ELSE [st EXCEPT !.data = markTagMatches(st.data, currentTag).node]

MarkAuthorStage(st, currentAuthor) ==
  IF st.data = Exception \/ currentAuthor = "all" THEN st
  ELSE [st EXCEPT !.data = markAuthorMatches(st.data, currentAuthor).node]

MarkLocationStage(st, currentLocation) ==
  IF st.data = Exception \/ currentLocation = "all" THEN st
  ELSE [st EXCEPT !.data = markLocationMatches(st.data, currentLocation).node]

MarkDateStage(st, dateFrom, dateTo) ==
  IF st.data = Exception \/ (dateFrom = <<>> /\ dateTo = <<>>) THEN st
  ELSE [st EXCEPT !.data = markDateMatches(st.data, dateFrom, dateTo).node]

\* getFilteredData(globalData, searchQuery, currentType, currentTag,
\*                 currentAuthor, currentLocation, dateFrom, dateTo,
\*                 searchIndexInstance): the run after its last statement
getFilteredData(globalData, a, idx) ==
  MarkDateStage(
    MarkLocationStage(
      MarkAuthorStage(
        MarkTagStage(
          MarkTypeStage(
            MarkSearchStage(
              DateStage(
                LocationStage(
                  AuthorStage(
                    TagStage(
                      TypeStage(
                        SearchStage(StartRun(globalData), a.query, idx),
                        a.type),
                      a.tag),
                    a.author),
                  a.location),
                a.dateFrom, a.dateTo)),
            a.type),
          a.tag),
        a.author),
      a.location),
    a.dateFrom, a.dateTo)

RECURSIVE Skeleton(_)
\* a tree without the properties of its nodes: which node each object is,
\* whether it is a new object, and its children list
Skeleton(node) ==
  IF ~IsNode(node) THEN node
  ELSE [kind |-> "node", id |-> node.id, fresh |-> node.fresh,
        children |-> IF IsSome(node.children)
                     THEN Some([i \in DOMAIN Val(node.children) |->
                                  Skeleton(Val(node.children)[i])])
                     ELSE None]

(***************************************************************************)
(* The source trees: a tree of at most MaxNodes nodes given by the parent  *)
(* of every node but the root (node 1), the children of a node in the      *)
(* order of their numbers.  As preprocessDataForD3 leaves it, a node has   *)
(* a non-empty name, a children list only when it has children, and no     *)
(* match flag.                                                             *)
(***************************************************************************)
Y2022 == <<"2", "0", "2", "2">>
D20230115 == <<"2", "0", "2", "3", "-", "0", "1", "-", "1", "5">>
D20220101 == <<"2", "0", "2", "2", "-", "0", "1", "-", "0", "1">>
D20221231 == <<"2", "0", "2", "2", "-", "1", "2", "-", "3", "1">>

Profiles ==
  { [type |-> Some("video"), tags |-> Some(<<"solar">>), urls |-> None],
    [type |-> Some("article"), tags |-> Some(<<>>),
     urls |-> Some(<<[NoItem EXCEPT !.author = "Ann", !.location = "Peru",
                                    !.date = Y2022]>>)],
    [type |-> None, tags |-> None, urls |-> None],
    [type |-> Some("video"), tags |-> None,
     urls |-> Some(<<[NoItem EXCEPT !.creator = "Ann", !.country = "Chile",
                                    !.date = D20230115]>>)] }

BareProfile == [type |-> None, tags |-> None, urls |-> None]

NameOf(i) ==
  CASE i = 1 -> "Root" [] i = 2 -> "Energy" [] i = 3 -> "Solar"
    [] i = 4 -> "Wind" [] OTHER -> "Solar"

Shapes(n) == {p \in [2..n -> 1..n] : \A i \in 2..n : p[i] < i}

RECURSIVE BuildNode(_, _, _, _)
BuildNode(i, n, parent, profile) ==
  LET kids == {j \in 2..n : parent[j] = i}
      RECURSIVE Kids(_)
      Kids(from) ==
        IF \A j \in kids : j < from THEN <<>>
        ELSE LET j == CHOOSE j \in kids : j >= from /\ \A k \in kids : k >= from => j <= k
             IN <<BuildNode(j, n, parent, profile)>> \o Kids(j + 1)
  IN [kind |-> "node", id |-> i, fresh |-> FALSE, name |-> NameOf(i),
      type |-> profile[i].type, tags |-> profile[i].tags,
      urls |-> profile[i].urls, content |-> None, items |-> None,
      children |-> IF kids = {} THEN None ELSE Some(Kids(2)),
      flags |-> NoFlags]

SourceTrees ==
  { BuildNode(1, MaxNodes, parent, profile) :
      parent \in Shapes(MaxNodes),
      profile \in {f \in [1..MaxNodes -> Profiles] : f[1] = BareProfile} }

(***************************************************************************)
(* The inputs of a run.                                                    *)
(***************************************************************************)
Queries ==
  { <<>>, <<"solar">>, <<"wind">>, <<"solar", "OR", "wind">>,
    <<"solar", "AND", "wind">>, <<"energy", "NOT", "solar">>, <<"NOT", "wind">> }

DateRanges ==
  { <<<<>>, <<>>>>, <<D20220101, D20221231>>, <<D20220101, <<>>>> }

RunArgs ==
  { [query |-> q, type |-> t, tag |-> g, author |-> au, location |-> lo,
     dateFrom |-> dr[1], dateTo |-> dr[2]] :
      q \in Queries, t \in {"all", "video"}, g \in {"all", "solar"},
      au \in {"all", "Ann"}, lo \in {"all", "Peru"}, dr \in DateRanges }

(***************************************************************************)
(* The state machine: the loaded dataset and its index, and the runs of    *)
(* getFilteredData made on them by the rendering layer.                    *)
(***************************************************************************)
VARIABLES
  globalData,   \* the source tree (main.js: globalData)
  searchIndex,  \* the index built from it (main.js: searchIndex)
  pc,           \* "idle", or "returned" while the caller holds a result
  args,         \* the arguments of the run that returned
  run           \* what that run returned, the ResultSet of its query, the
                \* calls it made to the index and the skeleton of the value
                \* of data after each stage

vars == <<globalData, searchIndex, pc, args, run>>

NoRun ==
  [result |-> Skipped, matchedNames |-> None, results |-> <<>>, calls |-> <<>>,
   afterSearch |-> Skipped, afterType |-> Skipped, afterTag |-> Skipped,
   afterAuthor |-> Skipped, afterLocation |-> Skipped, afterDate |-> Skipped]

Init ==
  /\ globalData \in SourceTrees
  /\ searchIndex = initializeSearch(globalData, FALSE, {})
  /\ pc = "idle"
  /\ args = NoArgs
  /\ run = NoRun

\* renderVisualization and the export handlers call getFilteredData with the
\* current filter state; the writes the run made through objects of the
\* source tree stay in globalData
GetFilteredData(a) ==
  /\ pc = "idle"
  /\ \E r \in {getFilteredData(globalData, a, searchIndex)} :
        /\ globalData' = WithWrites(globalData, SharedObjects(r.data))
        /\ run' = [result |-> r.data, matchedNames |-> r.matchedNames,
                   results |-> r.results, calls |-> r.calls,
                   afterSearch |-> Skeleton(r.afterSearch),
                   afterType |-> Skeleton(r.afterType),
                   afterTag |-> Skeleton(r.afterTag),
                   afterAuthor |-> Skeleton(r.afterAuthor),
                   afterLocation |-> Skeleton(r.afterLocation),
                   afterDate |-> Skeleton(r.afterDate)]
  /\ args' = a
  /\ pc' = "returned"
  /\ UNCHANGED searchIndex

\* the caller has rendered or exported the result and drops it
Discard ==
  /\ pc = "returned"
  /\ pc' = "idle"
  /\ args' = NoArgs
  /\ run' = NoRun
  /\ UNCHANGED <<globalData, searchIndex>>

Next ==
  \/ \E a \in RunArgs : GetFilteredData(a)
  \/ Discard

Spec == Init /\ [][Next]_vars

(***************************************************************************)
(* The same runs on an index that rejects some terms: search() throws on   *)
(* the terms of searchIndex.throws, and answers the empty query with every *)
(* document or with none.  The runs are made with every facet inactive,    *)
(* so that a run raises an exception only if the evaluator lets one out.   *)
(***************************************************************************)
EvalTrees ==
  { BuildNode(1, MaxNodes, parent, [i \in 1..MaxNodes |-> BareProfile]) :
      parent \in Shapes(MaxNodes) }

RejectedTerms == { <<>>, <<"solar">>, <<"wind">> }

EvalQueries ==
  { <<"solar">>, <<"wind">>, <<"solar", "OR", "wind">>,
    <<"solar", "AND", "wind">>, <<"wind", "AND", "solar">>,
    <<"energy", "NOT", "solar">>, <<"solar", "NOT", "wind">>,
    <<"NOT", "wind">>, <<"NOT", "solar">> }

EvalArgs == { [NoArgs EXCEPT !.query = q] : q \in EvalQueries }

InitEval ==
  /\ globalData \in EvalTrees
  /\ \E all \in BOOLEAN, throws \in SUBSET RejectedTerms :
        searchIndex = initializeSearch(globalData, all, throws)
  /\ pc = "idle"
  /\ args = NoArgs
  /\ run = NoRun

NextEval ==
  \/ \E a \in EvalArgs : GetFilteredData(a)
  \/ Discard

SpecEval == InitEval /\ [][NextEval]_vars

(***************************************************************************)
(* The trees of a state, for the properties below.                         *)
(***************************************************************************)
RECURSIVE NodesOf(_)
\* the nodes of a tree (none for null, an exception or a stage not run)
NodesOf(tree) ==
  IF ~IsNode(tree) THEN {}
  ELSE {tree} \cup
       (IF IsSome(tree.children)
        THEN UNION {NodesOf(Val(tree.children)[i]) : i \in DOMAIN Val(tree.children)}
        ELSE {})

ProperDescendants(n) == NodesOf(n) \ {n}

IdsOf(tree) == {n.id : n \in NodesOf(tree)}

\* the node of the source tree that a node of a pruned tree is, or copies
SourceNode(id) == CHOOSE n \in NodesOf(globalData) : n.id = id

Facets == {"type", "tag", "author", "location", "date"}

\* the facet is applied by the run with arguments a
Active(f, a) ==
  CASE f = "type" -> a.type # "all"
    [] f = "tag" -> a.tag # "all"
    [] f = "author" -> a.author # "all"
    [] f = "location" -> a.location # "all"
    [] f = "date" -> a.dateFrom # <<>> \/ a.dateTo # <<>>

\* the facet's predicate on the node itself, with the value given in a
Holds(f, node, a) ==
  CASE f = "type" -> typeMatches(node, a.type)
    [] f = "tag" -> tagMatches(node, a.tag)
    [] f = "author" -> authorMatches(node, a.author)
    [] f = "location" -> locationMatches(node, a.location)
    [] f = "date" -> dateMatches(node, a.dateFrom, a.dateTo)

StageOrder == <<"search", "type", "tag", "author", "location", "date">>

\* the value of data after a stage of the run that returned
StageOutput(f) ==
  CASE f = "search" -> run.afterSearch
    [] f = "type" -> run.afterType
    [] f = "tag" -> run.afterTag
    [] f = "author" -> run.afterAuthor
    [] f = "location" -> run.afterLocation
    [] f = "date" -> run.afterDate

\* the value of data a stage was called on: what the last stage run before
\* it left, or the source tree
StageInput(f) ==
  LET k == CHOOSE i \in DOMAIN StageOrder : StageOrder[i] = f
      ran == {j \in 1..(k - 1) : StageOutput(StageOrder[j]) # Skipped}
  IN IF ran = {} THEN Skeleton(globalData)
     ELSE StageOutput(StageOrder[CHOOSE j \in ran : \A i \in ran : i <= j])

\* the facet filter of f was called on a tree and returned
FacetFiltered(f) ==
  /\ pc = "returned"
  /\ f \in Facets
  /\ IsNode(StageInput(f))
  /\ StageOutput(f) \notin {Skipped, Exception}

\* the nodes of the input of f's filter for which the predicate of f holds
MatchingIn(f) ==
  {n \in NodesOf(StageInput(f)) : Holds(f, SourceNode(n.id), args)}

\* the nodes of the input of f's filter that match or have a matching descendant
Survivors(f) ==
  {n \in NodesOf(StageInput(f)) : NodesOf(n) \cap MatchingIn(f) # {}}

(***************************************************************************)
(* C1.  A run with a non-empty query whose search stage prunes the tree to *)
(* nothing returns null whatever the facet values are: no facet stage runs *)
(* and no exception is raised.                                             *)
(***************************************************************************)
C1_NullAfterSearchEndsRun ==
  (pc = "returned" /\ args.query # <<>> /\ run.afterSearch = Null)
    => /\ run.result = Null
       /\ \A f \in Facets : StageOutput(f) = Skipped

(***************************************************************************)
(* C2.  When a facet stage prunes the current tree to nothing, the run     *)
(* ends with the value null even if further facets are active after it     *)
(* (so that a run ends with a tree or with null, never with an exception). *)
(***************************************************************************)
C2_NullAfterFacetEndsRun ==
  (pc = "returned" /\ \E f \in Facets : StageOutput(f) = Null)
    => run.result = Null

(***************************************************************************)
(* C3.  Whatever terms the index rejects, no exception escapes the         *)
(* evaluator: a run with every facet inactive returns a tree or null, and  *)
(* has a matched-name set.                                                 *)
(***************************************************************************)
C3_NoExceptionEscapesEvaluator ==
  (pc = "returned" /\ args.query # <<>>)
    => /\ run.result # Exception
       /\ IsSome(run.matchedNames)

(***************************************************************************)
(* C4.  Facet filters: a node of the input is in the output iff the        *)
(* facet's predicate holds for the node or for one of its descendants, and *)
(* the output is null iff the predicate holds for no node of the input.    *)
(***************************************************************************)
C4_FacetFilterSurvivors ==
  \A f \in Facets :
    FacetFiltered(f) =>
      /\ IdsOf(StageOutput(f)) = {n.id : n \in Survivors(f)}
      /\ (StageOutput(f) = Null) <=> (MatchingIn(f) = {})

\* a facet filter was given a tree of three levels in which only a leaf
\* matches: the leaf and its ancestors are returned, the rest is removed
C4_Witness ==
  \E f \in Facets :
    /\ FacetFiltered(f)
    /\ \E leaf \in MatchingIn(f) :
          /\ MatchingIn(f) = {leaf}
          /\ ~IsSome(leaf.children)
          /\ Cardinality(IdsOf(StageOutput(f))) = 3
          /\ Cardinality(IdsOf(StageInput(f))) = 4
          /\ leaf.id \in IdsOf(StageOutput(f))

(***************************************************************************)
(* C5.  filterBySearchNames, as claimed: a node of the input is in the     *)
(* output iff its name is in the matched-name set or one of its            *)
(* descendants is in the output, and no other node is in the output.       *)
(***************************************************************************)
\* the search filter was called and returned
SearchFiltered ==
  /\ pc = "returned"
  /\ IsSome(run.matchedNames)

\* the nodes of the source tree whose name is in the matched-name set
NameMatches == {n \in NodesOf(globalData) : n.name \in Val(run.matchedNames)}

\* the nodes of the source tree that match or have a matching descendant
SearchSurvivors == {n \in NodesOf(globalData) : NodesOf(n) \cap NameMatches # {}}

\* the descendants of the matching nodes none of whose descendants match
Reattached ==
  UNION {ProperDescendants(n) :
           n \in {m \in NameMatches : ProperDescendants(m) \cap NameMatches = {}}}

C5_SearchFilterSurvivorsOnly ==
  SearchFiltered => IdsOf(run.afterSearch) = {n.id : n \in SearchSurvivors}

(***************************************************************************)
(* C5, amended.  A node of the input is in the output of                   *)
(* filterBySearchNames iff its name is in the matched-name set, or one of  *)
(* its descendants has such a name, or it is a descendant of a node that   *)
(* has such a name while none of that node's descendants has (the node is  *)
(* returned with its original children); the output is null iff no name    *)
(* of the tree is in the set.                                              *)
(***************************************************************************)
C5_SearchFilterSurvivorsAndReattached ==
  SearchFiltered =>
    /\ IdsOf(run.afterSearch) = {n.id : n \in SearchSurvivors \cup Reattached}
    /\ (run.afterSearch = Null) <=> (NameMatches = {})

\* the search filter returned a tree holding a node that neither matches
\* nor has a matching descendant
C5_Witness ==
  /\ SearchFiltered
  /\ IsNode(run.afterSearch)
  /\ \E n \in Reattached : n \notin SearchSurvivors /\ n.id \in IdsOf(run.afterSearch)

(***************************************************************************)
(* The annotations of the returned tree.                                   *)
(***************************************************************************)
\* the run that returned annotated its result for f (search or a facet)
Applied(f) ==
  IF f = "search" THEN IsSome(run.matchedNames) ELSE Active(f, args)

\* the result of the run that returned is an annotated tree
ReturnedTree == pc = "returned" /\ IsNode(run.result)

\* the predicate the annotator of f tests on the node itself
Direct(f, node) ==
  IF f = "search" THEN node.name \in Val(run.matchedNames)
  ELSE Holds(f, node, args)

\* the annotator of f on a node, with the arguments of the run
Annotate(f, node) ==
  CASE f = "search" -> markSearchHighlightsByName(node, Val(run.matchedNames))
    [] f = "type" -> markTypeMatches(node, args.type)
    [] f = "tag" -> markTagMatches(node, args.tag)
    [] f = "author" -> markAuthorMatches(node, args.author)
    [] f = "location" -> markLocationMatches(node, args.location)
    [] f = "date" -> markDateMatches(node, args.dateFrom, args.dateTo)

\* the names of the two flags of f
IsFlag(f) ==
  CASE f = "search" -> "isSearchMatch"
    [] f = "type" -> "isTypeMatch"
    [] f = "tag" -> "isTagMatch"
    [] f = "author" -> "isAuthorMatch"
    [] f = "location" -> "isLocationMatch"
    [] f = "date" -> "isDateMatch"

HasFlag(f) ==
  CASE f = "search" -> "hasMatchedDescendants"
    [] f = "type" -> "hasTypeMatchedDescendants"
    [] f = "tag" -> "hasTagMatchedDescendants"
    [] f = "author" -> "hasAuthorMatchedDescendants"
    [] f = "location" -> "hasLocationMatchedDescendants"
    [] f = "date" -> "hasDateMatchedDescendants"

\* the predicate of f holds for a node of the set
AnyDirect(f, nodes) == \E m \in nodes : Direct(f, m)

(***************************************************************************)
(* C6.  In the tree returned when two or more facets are active, every     *)
(* node satisfies every active facet itself or through a descendant in     *)
(* the returned tree.                                                      *)
(***************************************************************************)
C6_FacetsIntersect ==
  (ReturnedTree /\ Cardinality({f \in Facets : Active(f, args)}) >= 2)
    => \A f \in {g \in Facets : Active(g, args)} :
         \A n \in NodesOf(run.result) : AnyDirect(f, NodesOf(n))

(***************************************************************************)
(* C7.  No run writes onto a node object of the source tree: the source    *)
(* tree is the same before and after every run.                            *)
(***************************************************************************)
C7_SourceTreeNotWritten == [][globalData' = globalData]_vars

(***************************************************************************)
(* C8.  After annotation for f (search or an applied facet), a node of the *)
(* final tree has isMatch = true iff the predicate holds for it or for a   *)
(* descendant, has hasMatchedDescendants = true iff the predicate holds    *)
(* for a proper descendant, and the annotator returns for it the           *)
(* disjunction of the two (direct or any descendant).                      *)
(***************************************************************************)
C8_AnnotatorFlags ==
  ReturnedTree =>
    \A f \in {g \in Facets \cup {"search"} : Applied(g)} :
      \A n \in NodesOf(run.result) :
        /\ (Flag(n, IsFlag(f)) = "true") <=> AnyDirect(f, NodesOf(n))
        /\ (Flag(n, HasFlag(f)) = "true") <=> AnyDirect(f, ProperDescendants(n))
        /\ Annotate(f, n).ret <=>
             (Direct(f, n) \/ AnyDirect(f, ProperDescendants(n)))

\* a node of the final tree that does not match carries isMatch = true
\* because a descendant matches
C8_Witness ==
  /\ ReturnedTree
  /\ \E f \in Facets \cup {"search"} :
        /\ Applied(f)
        /\ \E n \in NodesOf(run.result) :
              /\ ~Direct(f, n)
              /\ AnyDirect(f, ProperDescendants(n))
              /\ Flag(n, IsFlag(f)) = "true"
              /\ Flag(n, HasFlag(f)) = "true"

(***************************************************************************)
(* C9.  As claimed: after annotation a node of the final tree whose        *)
(* subtree holds no directly matching node has isMatch = false and         *)
(* hasMatchedDescendants = false (written, not absent), and the parent of  *)
(* a matching leaf has both flags true.                                    *)
(***************************************************************************)
\* a child of n is a leaf for which the predicate of f holds
HasMatchingLeafChild(f, n) ==
  /\ IsSome(n.children)
  /\ \E i \in DOMAIN Val(n.children) :
        /\ Direct(f, Val(n.children)[i])
        /\ ProperDescendants(Val(n.children)[i]) = {}

C9_BothFlagsFalse ==
  ReturnedTree =>
    \A f \in {g \in Facets \cup {"search"} : Applied(g)} :
      \A n \in NodesOf(run.result) :
        /\ ~AnyDirect(f, NodesOf(n)) =>
             (Flag(n, IsFlag(f)) = "false" /\ Flag(n, HasFlag(f)) = "false")
        /\ HasMatchingLeafChild(f, n) =>
             (Flag(n, IsFlag(f)) = "true" /\ Flag(n, HasFlag(f)) = "true")

(***************************************************************************)
(* C9, amended.  After annotation a node of the final tree whose subtree   *)
(* holds no directly matching node has isMatch = false (undefined for the  *)
(* tag flag of a node without a tags property) and has no                  *)
(* hasMatchedDescendants property: the second flag is only ever written    *)
(* as true.  The parent of a matching leaf has both flags true.            *)
(***************************************************************************)
C9_FalseAndAbsent ==
  ReturnedTree =>
    \A f \in {g \in Facets \cup {"search"} : Applied(g)} :
      \A n \in NodesOf(run.result) :
        /\ ~AnyDirect(f, NodesOf(n)) =>
             /\ Flag(n, IsFlag(f)) =
                  (IF f = "tag" /\ ~IsSome(n.tags) THEN "undefined" ELSE "false")
             /\ Flag(n, HasFlag(f)) = "absent"
        /\ HasMatchingLeafChild(f, n) =>
             (Flag(n, IsFlag(f)) = "true" /\ Flag(n, HasFlag(f)) = "true")

\* the final tree holds a node with no match in its subtree and the parent
\* of a matching leaf, for the same annotator
C9_Witness ==
  /\ ReturnedTree
  /\ \E f \in Facets \cup {"search"} :
        /\ Applied(f)
        /\ \E n \in NodesOf(run.result) : ~AnyDirect(f, NodesOf(n))
        /\ \E n \in NodesOf(run.result) : HasMatchingLeafChild(f, n)

(***************************************************************************)
(* C10.  Annotations are rebuilt every run: a node of the tree a run       *)
(* returns carries a flag only if search, or the facet of the flag, was    *)
(* applied in that run, whatever runs were made before on the same source  *)
(* tree.                                                                   *)
(***************************************************************************)
C10_OnlyFlagsOfThisRun ==
  ReturnedTree =>
    \A n \in NodesOf(run.result) :
      \A x \in DOMAIN n.flags :
        \E f \in Facets \cup {"search"} :
          Applied(f) /\ x \in {IsFlag(f), HasFlag(f)}

(***************************************************************************)
(* Runs on an index of any contents.  The index holds MaxDocs documents;   *)
(* for every word of the vocabulary and every document, the score with     *)
(* which the document matches the word is any number up to MaxScore (0: no *)
(* match); the empty query is answered with every document or with none.   *)
(* The queries combine the terms A = solar (or the two-word term solar     *)
(* energy), B = wind and C = energy.                                       *)
(***************************************************************************)
MaxDocs == 2
MaxScore == 2

QueryWords == {"solar", "wind", "energy"}

DocNames == <<"Solar", "Wind", "Energy", "Root">>

\* the documents of an index of n documents, named as the nodes of a tree
DocsOf(n) ==
  [k \in 1..n |-> [id |-> k - 1, name |-> DocNames[((k - 1) % 4) + 1],
                   text |-> {}, node |-> k]]

AnyIndexes ==
  { [docs |-> DocsOf(MaxDocs), loose |-> tbl, exact |-> tbl,
     all |-> IF all THEN 0..(MaxDocs - 1) ELSE {}, throws |-> {}] :
      tbl \in [QueryWords -> [0..(MaxDocs - 1) -> 0..MaxScore]],
      all \in BOOLEAN }

TermA == <<"solar">>
TermA2 == <<"solar", "energy">>
TermB == <<"wind">>
TermC == <<"energy">>

\* the first operands of the two-operand queries
\* the terms "solar" and "solar wind", in double quotes
QuotedWord == <<"\"solar\"">>
QuotedPhrase == <<"\"solar", "wind\"">>
FirstTerms == {TermA, TermA2}

OrQuery(a, b) == a \o <<"OR">> \o b
AndQuery(a, b) == a \o <<"AND">> \o b
NotQuery(a, b) == a \o <<"NOT">> \o b

IndexQueries ==
  {TermA, TermA2, TermB, TermC}
    \cup {OrQuery(a, TermB) : a \in FirstTerms}
    \cup {AndQuery(a, TermB) : a \in FirstTerms}
    \cup {NotQuery(a, TermB) : a \in FirstTerms}
    \cup {NotQuery(AndQuery(TermA, TermB), TermC)}
   \cup {OrQuery(AndQuery(TermA, TermB), TermC), OrQuery(NotQuery(TermA, TermB), TermC)}
   \cup {AndQuery(AndQuery(TermA, TermB), TermC)}
   \cup {TermA \o <<"NOT">>, <<"NOT">>, <<"NOT", "NOT">>}
   \cup {QuotedWord, QuotedPhrase, TermA \o <<"OR">>, <<"OR">>, <<"NOT">> \o TermB}

IndexArgs == { [NoArgs EXCEPT !.query = q] : q \in IndexQueries }

\* Root -> Energy -> {Solar, Wind}, the nodes without properties
PlainTree ==
  BuildNode(1, 4, [i \in 2..4 |-> IF i = 2 THEN 1 ELSE 2],
            [i \in 1..4 |-> BareProfile])

InitIndex ==
  /\ globalData = PlainTree
  /\ searchIndex \in AnyIndexes
  /\ pc = "idle"
  /\ args = NoArgs
  /\ run = NoRun

NextIndex ==
  \/ \E a \in IndexArgs : GetFilteredData(a)
  \/ Discard

SpecIndex == InitIndex /\ [][NextIndex]_vars

\* the ids of the ResultSet of a query on the index of the state
IdsFor(query) == Ids(evaluateQuery(query, searchIndex).results)

\* the run that returned was made with this query and every facet inactive
RanQuery(query) == pc = "returned" /\ args = [NoArgs EXCEPT !.query = query]

(***************************************************************************)
(* C11.  The query A AND B NOT C: no document of the ResultSet of C alone  *)
(* is in the ResultSet of the query.                                       *)
(***************************************************************************)
C11_AndNotExcludes ==
  RanQuery(NotQuery(AndQuery(TermA, TermB), TermC))
    => Ids(run.results) \cap IdsFor(TermC) = {}

(***************************************************************************)
(* C13.  For terms A and B without operators and any contents of the       *)
(* index, every id of the ResultSet of A AND B is an id of the ResultSet   *)
(* of A OR B.                                                              *)
(***************************************************************************)
C13_OrContainsAnd ==
  \A a \in FirstTerms :
    /\ RanQuery(OrQuery(a, TermB)) =>
         IdsFor(AndQuery(a, TermB)) \subseteq Ids(run.results)
    /\ RanQuery(AndQuery(a, TermB)) =>
         Ids(run.results) \subseteq IdsFor(OrQuery(a, TermB))

\* a run of A OR B on an index where some document matches both terms and
\* some document only one of them
C13_Witness ==
  /\ RanQuery(OrQuery(TermA2, TermB))
  /\ IdsFor(AndQuery(TermA2, TermB)) # {}
  /\ IdsFor(AndQuery(TermA2, TermB)) # Ids(run.results)

(***************************************************************************)
(* C14.  For terms A and B without operators, no id of the ResultSet of    *)
(* A NOT B is in the ResultSet of B alone, and every one of its ids is in  *)
(* the ResultSet of A alone.                                               *)
(***************************************************************************)
C14_NotDisjointAndWithin ==
  \A a \in FirstTerms :
    RanQuery(NotQuery(a, TermB)) =>
      /\ Ids(run.results) \cap IdsFor(TermB) = {}
      /\ Ids(run.results) \subseteq IdsFor(a)

\* a run of A NOT B on an index where B takes a document away from the
\* matches of A and leaves another
C14_Witness ==
  /\ RanQuery(NotQuery(TermA, TermB))
  /\ IdsFor(TermA) \cap IdsFor(TermB) # {}
  /\ run.results # <<>>

(***************************************************************************)
(* C19.  When no document matches both A and B, the query A AND B has an   *)
(* empty ResultSet, the set of matched names is empty, and getFilteredData *)
(* with every facet inactive returns null.                                 *)
(***************************************************************************)
C19_AndWithoutCommonMatch ==
  \A a \in FirstTerms :
    (RanQuery(AndQuery(a, TermB)) /\ IdsFor(a) \cap IdsFor(TermB) = {}) =>
      /\ run.results = <<>>
      /\ run.matchedNames = Some({})
      /\ IsNull(run.result)

\* a run of A AND B on an index where each term has a match and no document
\* matches both
C19_Witness ==
  /\ RanQuery(AndQuery(TermA, TermB))
  /\ IdsFor(TermA) # {}
  /\ IdsFor(TermB) # {}
  /\ IdsFor(TermA) \cap IdsFor(TermB) = {}
  /\ IsNull(run.result)

(***************************************************************************)
(* Runs on the tree of the scenarios,                                      *)
(*   Root -> Energy -> {Solar (tags: [solar]), Wind (tags: [wind])},       *)
(* with the index built from it.  As MiniSearch does, and as the Text      *)
(* Index must by its contract, the index answers the empty query with an   *)
(* empty array.                                                            *)
(***************************************************************************)
ScenarioTree ==
  BuildNode(1, 4, [i \in 2..4 |-> IF i = 2 THEN 1 ELSE 2],
            [i \in 1..4 |->
               [BareProfile EXCEPT
                  !.tags = CASE i = 3 -> Some(<<"solar">>)
                             [] i = 4 -> Some(<<"wind">>)
                             [] OTHER -> None]])

InitScenario ==
  /\ globalData = ScenarioTree
  /\ searchIndex = initializeSearch(globalData, FALSE, {})
  /\ pc = "idle"
  /\ args = NoArgs
  /\ run = NoRun

SpecScenario == InitScenario /\ [][Next]_vars

RECURSIVE Shape(_)
\* the names of a tree: the name of the root and the shapes of its children
Shape(tree) ==
  <<tree.name,
    IF IsSome(tree.children)
    THEN [i \in DOMAIN Val(tree.children) |-> Shape(Val(tree.children)[i])]
    ELSE <<>>>>

\* the ids of the documents of the index
AllDocIds == {searchIndex.docs[k].id : k \in DOMAIN searchIndex.docs}

(***************************************************************************)
(* C12.  The query NOT wind evaluates to every document that does not      *)
(* match wind, and the run on Root -> Energy -> {Solar, Wind} returns the  *)
(* tree of Root, Energy and Solar, without Wind.                           *)
(***************************************************************************)
C12_NotAtStartIsComplement ==
  RanQuery(<<"NOT", "wind">>) =>
    /\ Ids(run.results) = AllDocIds \ IdsFor(<<"wind">>)
    /\ IsNode(run.result)
    /\ Shape(run.result) = <<"Root", <<<<"Energy", <<<<"Solar", <<>>>>>>>>>>>>

(***************************************************************************)
(* Runs with a date range on trees Root -> {Solar, Wind} whose leaves      *)
(* carry one content item each, dated with one of ItemDates.               *)
(***************************************************************************)
D202206 == <<"2", "0", "2", "2", "-", "0", "6">>
D202213 == <<"2", "0", "2", "2", "-", "1", "3">>
D20221301 == <<"2", "0", "2", "2", "-", "1", "3", "-", "0", "1">>
Soon == <<"s", "o", "o", "n">>

\* item dates: none, the three accepted shapes, a string of no shape, and
\* strings of the shapes YYYY-MM and YYYY-MM-DD with month 13
ItemDates ==
  {<<>>, Y2022, D202206, D20220101, D20221231, D20230115, Soon, D202213, D20221301}

DateBounds == {<<>>, Y2022, D202206, D20220101, D20221231, D20230115}

DatedLeaf(date) ==
  [BareProfile EXCEPT !.urls = Some(<<[NoItem EXCEPT !.published_date = date]>>)]

DateTrees ==
  { BuildNode(1, 3, [i \in 2..3 |-> 1],
              [i \in 1..3 |-> CASE i = 2 -> DatedLeaf(d1)
                                [] i = 3 -> DatedLeaf(d2)
                                [] OTHER -> BareProfile]) :
      d1 \in ItemDates, d2 \in ItemDates }

DateArgs ==
  { [NoArgs EXCEPT !.dateFrom = from, !.dateTo = to] :
      from \in DateBounds, to \in DateBounds }

InitDate ==
  /\ globalData \in DateTrees
  /\ searchIndex = initializeSearch(globalData, FALSE, {})
  /\ pc = "idle"
  /\ args = NoArgs
  /\ run = NoRun

NextDate == (\E a \in DateArgs : GetFilteredData(a)) \/ Discard

SpecDate == InitDate /\ [][NextDate]_vars

\* item.date || item.published_date || item.publish_date
ItemDate(item) == OrSeq(item.date, OrSeq(item.published_date, item.publish_date))

\* the string of a bound or of an item date in the form YYYY-MM-DD: a year
\* gets -01-01 and a year and month -01
Normalized(dateStr) ==
  IF MatchesYear(dateStr) THEN dateStr \o <<"-", "0", "1", "-", "0", "1">>
  ELSE IF MatchesYearMonth(dateStr) THEN dateStr \o <<"-", "0", "1">>
  ELSE dateStr

\* the string denotes a day of the calendar
IsRealDate(dateStr) == NewDate(Normalized(dateStr)).valid

\* the day a real date denotes
DayOf(dateStr) == NewDate(Normalized(dateStr)).time

\* a run with a date range has returned
RanDateRange == pc = "returned" /\ args \in DateArgs /\ Active("date", args)

(***************************************************************************)
(* C15.  An item whose date is not a real calendar date never matches a    *)
(* date range: a node whose items all have such dates is not a date match  *)
(* for any bounds, and filterByDateRange keeps it only for a surviving     *)
(* child.                                                                  *)
(***************************************************************************)
C15_UnparsableDateNeverMatches ==
  RanDateRange =>
    \A n \in NodesOf(globalData) :
      (\A i \in DOMAIN ItemsOf(n) : ~IsRealDate(ItemDate(ItemsOf(n)[i]))) =>
        /\ ~dateMatches(n, args.dateFrom, args.dateTo)
        /\ \A m \in NodesOf(run.afterDate) :
             m.id = n.id => IsSome(m.children) /\ Val(m.children) # <<>>

\* the item of the node has a real date within the bounds of a, both
\* inclusive, an absent bound not constraining
InRange(n, a) ==
  \E i \in DOMAIN ItemsOf(n) :
    /\ IsRealDate(ItemDate(ItemsOf(n)[i]))
    /\ a.dateFrom # <<>> => DayOf(a.dateFrom) <= DayOf(ItemDate(ItemsOf(n)[i]))
    /\ a.dateTo # <<>> => DayOf(ItemDate(ItemsOf(n)[i])) <= DayOf(a.dateTo)

(***************************************************************************)
(* C16.  A node is a date match iff one of its items has a real date d     *)
(* with from <= d <= to, bounds inclusive and optional, a year standing    *)
(* for its 1 January and a year and month for the first of the month: the  *)
(* date filter keeps a leaf exactly then.                                  *)
(***************************************************************************)
C16_DateMatchIffInRange ==
  RanDateRange =>
    \A n \in NodesOf(globalData) :
      /\ dateMatches(n, args.dateFrom, args.dateTo) <=> InRange(n, args)
      /\ ~IsSome(n.children) => (n.id \in IdsOf(run.afterDate) <=> InRange(n, args))

(***************************************************************************)
(* C17.  A run with an empty query, every facet "all" and no date bound    *)
(* returns its input tree, node for node, and writes no annotation; and    *)
(* in no run is the filter of an inactive facet applied.                   *)
(***************************************************************************)
C17_InactiveRunReturnsInput ==
  /\ [][(pc = "idle" /\ pc' = "returned" /\ args' = NoArgs) =>
          (run'.result = globalData /\ globalData' = globalData)]_vars
  /\ [](pc = "returned" =>
          \A f \in Facets : ~Active(f, args) => StageOutput(f) = Skipped)

\* a run without query, facet or date on a tree of MaxNodes nodes that
\* carries annotations of an earlier run
C17_Witness ==
  /\ pc = "returned" /\ args = NoArgs
  /\ run.result = globalData
  /\ Cardinality(NodesOf(run.result)) = MaxNodes
  /\ \E n \in NodesOf(run.result) : n.flags # NoFlags

\* a run with no query and the tag facet alone, set to "solar"
RanTagSolar == pc = "returned" /\ args = [NoArgs EXCEPT !.tag = "solar"]

(***************************************************************************)
(* C18.  Over Root -> Energy -> {Solar (tags: [solar]), Wind (tags:        *)
(* [wind])} the query solar OR wind with every facet inactive returns      *)
(* Root, Energy and both leaves, and the facet tag = solar alone returns   *)
(* exactly Root -> Energy -> Solar.                                        *)
(***************************************************************************)
C18_ScenarioA ==
  /\ RanQuery(<<"solar", "OR", "wind">>) =>
       /\ IsNode(run.result)
       /\ Shape(run.result) =
            <<"Root", <<<<"Energy", <<<<"Solar", <<>>>>, <<"Wind", <<>>>>>>>>>>>>
  /\ RanTagSolar =>
       /\ IsNode(run.result)
       /\ Shape(run.result) = <<"Root", <<<<"Energy", <<<<"Solar", <<>>>>>>>>>>>>

\* the run of tag = solar has returned a tree without the node Wind of the
\* source tree
C18_Witness ==
  /\ RanTagSolar
  /\ IsNode(run.result)
  /\ IdsOf(globalData) \ IdsOf(run.result) = {4}

\* the ids of the children of a node, in order (none without a children list)
ChildIds(n) ==
  IF IsSome(n.children) THEN [i \in DOMAIN Val(n.children) |-> Val(n.children)[i].id]
  ELSE <<>>

\* the children of the source node id that match the search or have a
\* descendant that does
SearchSurvivingChildren(id) ==
  SelectSeq(ChildIds(SourceNode(id)),
            LAMBDA c : \E d \in NodesOf(SourceNode(c)) :
                          d.name \in Val(run.matchedNames))

\* the node of the input of f's filter that the node m of its output copies
InputNode(f, m) == CHOOSE n \in NodesOf(StageInput(f)) : n.id = m.id

\* the children of a node of the input of f's filter that match f or have a
\* descendant that does
FacetSurvivingChildren(f, n) ==
  IF IsSome(n.children)
  THEN With(SelectSeq(Val(n.children),
                      LAMBDA c : \E d \in NodesOf(c) :
                                    Holds(f, SourceNode(d.id), args)),
            LAMBDA kept : [i \in DOMAIN kept |-> kept[i].id])
  ELSE <<>>

(***************************************************************************)
(* C20.  In the output of filterBySearchNames a node none of whose         *)
(* children survive has the original children list of its source node,     *)
(* the source objects themselves, and a node with a surviving child has    *)
(* exactly the surviving children.  In the output of a facet filter a node *)
(* that had a children list has exactly the surviving children, none when  *)
(* none survive.                                                           *)
(***************************************************************************)
C20_ReattachmentAsymmetry ==
  /\ SearchFiltered =>
       \A m \in NodesOf(run.afterSearch) :
         m.fresh =>
           IF SearchSurvivingChildren(m.id) = <<>>
           THEN /\ SourceNode(m.id).name \in Val(run.matchedNames)
                /\ m.children = Skeleton(SourceNode(m.id)).children
           ELSE /\ ChildIds(m) = SearchSurvivingChildren(m.id)
                /\ \A i \in DOMAIN Val(m.children) : Val(m.children)[i].fresh
  /\ \A f \in Facets :
       FacetFiltered(f) =>
         \A m \in NodesOf(StageOutput(f)) :
           IF IsSome(InputNode(f, m).children)
           THEN /\ IsSome(m.children)
                /\ ChildIds(m) = FacetSurvivingChildren(f, InputNode(f, m))
           ELSE ~IsSome(m.children)

\* one run in which the search filter returned a matching node with its
\* original children, none of which survived, and a facet filter returned a
\* matching node that had children with an empty children list
C20_Witness ==
  /\ SearchFiltered
  /\ \E m \in NodesOf(run.afterSearch) :
       /\ m.fresh
       /\ SearchSurvivingChildren(m.id) = <<>>
       /\ ChildIds(m) # <<>>
  /\ \E f \in Facets :
       /\ FacetFiltered(f)
       /\ \E m \in NodesOf(StageOutput(f)) :
            /\ m.children = Some(<<>>)
            /\ ChildIds(InputNode(f, m)) # <<>>

\* the sequence kept holds elements of orig in the order they have in orig
InOrderOf(kept, orig) == kept = SelectSeq(orig, LAMBDA c : c \in Range(kept))

(***************************************************************************)
(* C21.  The filter stages leave their input unchanged and return copies:  *)
(* no run changes the nodes or the children lists of the source tree, a    *)
(* run that ends without a tree (only filters ran) writes nothing at all,  *)
(* every node a stage returns as a survivor is a new object, and the       *)
(* children of a returned node are in the order they had in the input.     *)
(***************************************************************************)
C21_FilterStagesCopy ==
  /\ [][Skeleton(globalData') = Skeleton(globalData)]_vars
  /\ [][(pc = "idle" /\ pc' = "returned" /\ ~IsNode(run'.result)) =>
          globalData' = globalData]_vars
  /\ [](SearchFiltered =>
          \A m \in NodesOf(run.afterSearch) :
            /\ (\E d \in NodesOf(SourceNode(m.id)) :
                   d.name \in Val(run.matchedNames)) => m.fresh
            /\ InOrderOf(ChildIds(m), ChildIds(SourceNode(m.id))))
  /\ [](\A f \in Facets :
          FacetFiltered(f) =>
            \A m \in NodesOf(StageOutput(f)) :
              /\ m.fresh
              /\ InOrderOf(ChildIds(m), ChildIds(InputNode(f, m))))

\* a facet filter returned a node with two of the three children it had in
\* the input, the first and the last
C21_Witness ==
  \E f \in Facets :
    /\ FacetFiltered(f)
    /\ \E m \in NodesOf(StageOutput(f)) :
         /\ Len(ChildIds(InputNode(f, m))) = 3
         /\ ChildIds(m) = <<ChildIds(InputNode(f, m))[1], ChildIds(InputNode(f, m))[3]>>

\* the queries with an OR, and the parts handleOrSearch splits a query into
OrQueries == {q \in IndexQueries : HasWord(q, OrWords)}
OrParts(q) == Split(q, OrWords)

\* the scores the document id received in the parts of the OR query q, each
\* part evaluated as a query of its own
PartScores(q, id) ==
  UNION {{r.score : r \in {p \in Range(evaluateQuery(OrParts(q)[i], searchIndex).results) :
                             p.id = id}} :
           i \in DOMAIN OrParts(q)}

(***************************************************************************)
(* C22.  The ids of the ResultSet of an OR query are the union of the ids  *)
(* of its parts, each part evaluated as a query of its own (A AND B OR C   *)
(* is (A AND B) union C); a document is in the ResultSet once, with the    *)
(* highest score it received in a part, and the ResultSet is in            *)
(* descending order of score.                                              *)
(***************************************************************************)
C22_OrIsUnionWithBestScore ==
  \A q \in OrQueries :
    RanQuery(q) =>
      /\ Ids(run.results) = UNION {IdsFor(OrParts(q)[i]) : i \in DOMAIN OrParts(q)}
      /\ \A i, j \in DOMAIN run.results :
           /\ i # j => run.results[i].id # run.results[j].id
           /\ i < j => run.results[i].score >= run.results[j].score
      /\ \A i \in DOMAIN run.results :
           /\ run.results[i].score \in PartScores(q, run.results[i].id)
           /\ \A sc \in PartScores(q, run.results[i].id) : sc <= run.results[i].score

\* a run of A AND B OR C where a document is found by both parts, with a
\* higher score in the second, and another document by one part only
C22_Witness ==
  /\ RanQuery(OrQuery(AndQuery(TermA, TermB), TermC))
  /\ Len(run.results) = 2
  /\ \E id \in IdsFor(AndQuery(TermA, TermB)) \cap IdsFor(TermC) :
       \E r \in Range(evaluateQuery(AndQuery(TermA, TermB), searchIndex).results) :
         r.id = id /\ \E t \in Range(run.results) : t.id = id /\ t.score > r.score
  /\ IdsFor(AndQuery(TermA, TermB)) # IdsFor(TermC)

\* the queries handleAndSearch receives, and the parts it splits a query into
AndQueries == {q \in IndexQueries : HasWord(q, AndWords) /\ ~HasWord(q, OrWords)}
AndParts(q) == Split(q, AndWords)

\* the ids common to the first k parts of the AND query q, each part
\* evaluated as a query of its own
CommonIds(q, k) == {id \in IdsFor(AndParts(q)[1]) : \A i \in 2..k : id \in IdsFor(AndParts(q)[i])}

(***************************************************************************)
(* C23.  The ids of the ResultSet of an AND query are the intersection of  *)
(* the ids of its parts, each part evaluated as a query of its own, and    *)
(* once the intersection with a part is empty the index is not queried     *)
(* for the parts after it.                                                 *)
(***************************************************************************)
C23_AndIsIntersection ==
  \A q \in AndQueries :
    RanQuery(q) =>
      /\ Ids(run.results) = CommonIds(q, Len(AndParts(q)))
      /\ \A k \in 2..Len(AndParts(q)) :
           CommonIds(q, k) = {} => Len(run.calls) <= k

\* NOT expressions of neither form of handleNotSearch: nothing to exclude
UnsupportedNot == {TermA \o <<"NOT">>, <<"NOT">>, <<"NOT", "NOT">>}

(***************************************************************************)
(* C24.  A NOT expression of neither supported form (solar NOT, the bare   *)
(* word NOT) evaluates to the empty ResultSet: no exception is raised, the *)
(* index is not asked, and the run returns no node.                        *)
(***************************************************************************)
C24_UnsupportedNotIsEmpty ==
  \A q \in UnsupportedNot :
    RanQuery(q) =>
      /\ run.results = <<>>
      /\ run.calls = <<>>
      /\ run.matchedNames = Some({})
      /\ IsNull(run.result)

\* a run of solar NOT on an index where solar alone has matches
C24_Witness ==
  /\ RanQuery(TermA \o <<"NOT">>)
  /\ IdsFor(TermA) # {}
  /\ run.results = <<>>

(***************************************************************************)
(* C25.  Single-term evaluation: AND, OR and NOT left in a term are        *)
(* removed; a term that is empty after that is not searched for; a term    *)
(* in double quotes is searched without the quotes, prefix off and fuzzy   *)
(* 0.1, any other term with prefix on and fuzzy 0.2; and every search for  *)
(* a term asks for combineWith AND.                                        *)
(***************************************************************************)
C25_SingleTermQueries ==
  /\ pc = "returned" =>
       \A i \in DOMAIN run.calls :
         run.calls[i].term # <<>> =>
           /\ run.calls[i].combineWith = "AND"
           /\ ~HasWord(run.calls[i].term, OpWords)
           /\ \/ run.calls[i].prefix /\ run.calls[i].fuzzy = "0.2"
              \/ ~run.calls[i].prefix /\ run.calls[i].fuzzy = "0.1"
  /\ RanQuery(QuotedWord) => run.calls = <<Call(<<"solar">>, FALSE, "0.1", "AND")>>
  /\ RanQuery(QuotedPhrase) =>
       run.calls = <<Call(<<"solar", "wind">>, FALSE, "0.1", "AND")>>
  /\ RanQuery(TermA2) => run.calls = <<Call(TermA2, TRUE, "0.2", "AND")>>
  /\ RanQuery(TermA \o <<"OR">>) => run.calls = <<Call(TermA, TRUE, "0.2", "AND")>>
  /\ RanQuery(<<"OR">>) => run.calls = <<>> /\ run.results = <<>>

\* a run of the quoted phrase "solar wind" that found a document
C25_Witness ==
  /\ RanQuery(QuotedPhrase)
  /\ run.results # <<>>
  /\ ~run.calls[1].prefix

(***************************************************************************)
(* Runs with the author and location facets on trees Root -> Energy ->     *)
(* Solar whose nodes Energy and Solar carry one content item each, with    *)
(* every filling of its author, creator and source fields (and of its      *)
(* location, country and region fields in the same pattern).               *)
(***************************************************************************)
PlaceOf(person) ==
  CASE person = "Ann" -> "Peru" [] person = "Bob" -> "Chile" [] OTHER -> ""

ItemKinds ==
  { [NoItem EXCEPT !.author = a, !.creator = c, !.source = so,
                   !.location = PlaceOf(a), !.country = PlaceOf(c),
                   !.region = PlaceOf(so)] :
      a \in {"", "Ann", "Bob"}, c \in {"", "Ann"}, so \in {"", "Ann"} }

ItemTrees ==
  { BuildNode(1, 3, [i \in 2..3 |-> i - 1],
              [i \in 1..3 |-> CASE i = 2 -> [BareProfile EXCEPT !.urls = Some(<<e>>)]
                                [] i = 3 -> [BareProfile EXCEPT !.urls = Some(<<l>>)]
                                [] OTHER -> BareProfile]) :
      e \in ItemKinds, l \in ItemKinds }

ItemArgs ==
  { [NoArgs EXCEPT !.author = au, !.location = lo] :
      au \in {"all", "Ann", "ann"}, lo \in {"all", "Peru"} }

InitItems ==
  /\ globalData \in ItemTrees
  /\ searchIndex = initializeSearch(globalData, FALSE, {})
  /\ pc = "idle"
  /\ args = NoArgs
  /\ run = NoRun

NextItems == (\E a \in ItemArgs : GetFilteredData(a)) \/ Discard

SpecItems == InitItems /\ [][NextItems]_vars

\* an item of the node has its author, creator or source field equal to value
AnyAuthorField(n, value) ==
  \E i \in DOMAIN ItemsOf(n) :
    value \in {ItemsOf(n)[i].author, ItemsOf(n)[i].creator, ItemsOf(n)[i].source}

\* an item of the node has its location, country or region field equal to value
AnyLocationField(n, value) ==
  \E i \in DOMAIN ItemsOf(n) :
    value \in {ItemsOf(n)[i].location, ItemsOf(n)[i].country, ItemsOf(n)[i].region}

(***************************************************************************)
(* C26.  The author predicate holds for a node iff one of its own items    *)
(* has its author, creator or source field equal to the value (also when   *)
(* the creator or the source equals it and the author field holds another  *)
(* string), and the same for location, country and region: a leaf is kept  *)
(* by filterByAuthor or filterByLocation exactly then.                     *)
(***************************************************************************)
C26_AnyFieldEquals ==
  pc = "returned" =>
    \A n \in NodesOf(globalData) :
      /\ Active("author", args) =>
           /\ authorMatches(n, args.author) <=> AnyAuthorField(n, args.author)
           /\ (FacetFiltered("author") /\ ~IsSome(n.children)) =>
                (n.id \in IdsOf(run.afterAuthor) <=> AnyAuthorField(n, args.author))
      /\ Active("location", args) =>
           /\ locationMatches(n, args.location) <=> AnyLocationField(n, args.location)
           /\ (FacetFiltered("location") /\ ~IsSome(n.children)
                 /\ n.id \in IdsOf(StageInput("location"))) =>
                (n.id \in IdsOf(run.afterLocation) <=> AnyLocationField(n, args.location))

(***************************************************************************)
(* Datasets with nodes that have neither name nor entity_name.  The index  *)
(* is built from the raw tree (main.js: initializeSearch(rawData)) and the *)
(* source tree is its preprocessed form, where such a node is "Unnamed".   *)
(***************************************************************************)
RECURSIVE Renamed(_, _, _)
\* the tree with the name given to the nodes whose ids are in unnamed
Renamed(tree, unnamed, name) ==
  [tree EXCEPT
     !.name = IF tree.id \in unnamed THEN name ELSE @,
     !.children = IF IsSome(@)
                  THEN Some([i \in DOMAIN Val(@) |-> Renamed(Val(@)[i], unnamed, name)])
                  ELSE @]

InitRaw ==
  /\ \E tree \in EvalTrees, unnamed \in SUBSET NodeIds :
        /\ globalData = Renamed(tree, unnamed, "Unnamed")
        /\ searchIndex = initializeSearch(Renamed(tree, unnamed, ""), FALSE, {})
  /\ pc = "idle"
  /\ args = NoArgs
  /\ run = NoRun

SpecRaw == InitRaw /\ [][NextEval]_vars

RECURSIVE PreOrder(_)
\* the ids of the nodes of a tree in depth-first pre-order
PreOrder(tree) ==
  LET RECURSIVE Over(_, _)
      Over(kids, i) ==
        IF i > Len(kids) THEN <<>> ELSE PreOrder(kids[i]) \o Over(kids, i + 1)
  IN <<tree.id>> \o (IF IsSome(tree.children) THEN Over(Val(tree.children), 1) ELSE <<>>)

\* the ids of the nodes of the dataset that have a name, in pre-order
NamedInPreOrder ==
  SelectSeq(PreOrder(globalData), LAMBDA id : SourceNode(id).name # "Unnamed")

TwinTree ==
  Renamed(BuildNode(1, 4, [i \in 2..4 |-> IF i = 3 THEN 2 ELSE 1],
                    [i \in 1..4 |-> BareProfile]),
          {4}, "Solar")

NamedIndexes ==
  { [docs |-> <<[id |-> 0, name |-> n0, text |-> {}, node |-> 3],
                [id |-> 1, name |-> n1, text |-> {}, node |-> 4]>>,
     loose |-> tbl, exact |-> tbl, all |-> {}, throws |-> {}] :
      n0 \in {"Solar", "Wind", "", " "}, n1 \in {"Solar", "Wind", "", " "},
      tbl \in [QueryWords -> [{0, 1} -> {0, 1}]] }

NameQueries == {TermA, TermB, OrQuery(TermA, TermB)}

InitNames ==
  /\ globalData = TwinTree
  /\ searchIndex \in NamedIndexes
  /\ pc = "idle"
  /\ args = NoArgs
  /\ run = NoRun

NextNames ==
  (\E q \in NameQueries : GetFilteredData([NoArgs EXCEPT !.query = q])) \/ Discard

SpecNames == InitNames /\ [][NextNames]_vars

\* the names that are empty once trimmed
BlankNames == {"", " "}

(***************************************************************************)
(* C28.  The matched-name set is the set of the names of the documents of  *)
(* the ResultSet that are not empty once trimmed; every node of the tree   *)
(* whose name is in the set is kept by the search filter and annotated as  *)
(* a match, wherever it is, so that of two leaves with the same name both  *)
(* are matches or neither is.                                              *)
(***************************************************************************)
C28_MatchedNames ==
  SearchFiltered =>
    /\ Val(run.matchedNames) = {run.results[i].name : i \in DOMAIN run.results} \ BlankNames
    /\ \A n \in NodesOf(globalData) :
         n.name \in Val(run.matchedNames) =>
           \E m \in NodesOf(run.result) : m.id = n.id /\ Flag(m, "isSearchMatch") = "true"
    /\ \A m \in NodesOf(run.result) :
         ~IsSome(m.children) =>
           (Flag(m, "isSearchMatch") = "true" <=> m.name \in Val(run.matchedNames))

\* the ResultSet holds one document named Solar and one with a blank name:
\* both nodes named Solar are returned as matches
C28_Witness ==
  /\ SearchFiltered
  /\ {run.results[i].name : i \in DOMAIN run.results} = {"Solar", " "}
  /\ \A id \in {3, 4} :
       \E m \in NodesOf(run.result) : m.id = id /\ Flag(m, "isSearchMatch") = "true"

(***************************************************************************)
(* The filter stages as functions: two stages applied to a source tree in  *)
(* both orders, and a stage applied to its own output.                     *)
(***************************************************************************)
Stages == Facets \cup {"search"}

\* the matched-name sets the search stage is applied with
NameSets == {{"Solar"}, {"Energy"}, {"Energy", "Wind"}}

\* the values of the facets
StageArgs ==
  [NoArgs EXCEPT !.type = "video", !.tag = "solar", !.author = "Ann",
                 !.location = "Peru", !.dateFrom = D20220101, !.dateTo = D20221231]

\* the stage f of getFilteredData on data, with the values of a and the
\* matched-name set names
ApplyStage(f, data, a, names) ==
  CASE f = "search" -> filterBySearchNames(data, names)
    [] f = "type" -> OnData(data, filterByType(data, a.type))
    [] f = "tag" -> OnData(data, filterByTag(data, a.tag))
    [] f = "author" -> OnData(data, filterByAuthor(data, a.author))
    [] f = "location" -> OnData(data, filterByLocation(data, a.location))
    [] f = "date" -> OnData(data, filterByDateRange(data, a.dateFrom, a.dateTo))

RECURSIVE Structure(_)
\* which nodes a tree has, their names and their children lists
Structure(tree) ==
  IF ~IsNode(tree) THEN tree
  ELSE [kind |-> "node", id |-> tree.id, name |-> tree.name,
        children |-> IF IsSome(tree.children)
                     THEN Some([i \in DOMAIN Val(tree.children) |->
                                  Structure(Val(tree.children)[i])])
                     ELSE None]

\* stage f and then stage g on the source tree, and g and then f
ApplyBoth(f, g, names) ==
  /\ pc = "idle"
  /\ \E byF \in {ApplyStage(f, globalData, StageArgs, names)},
        byG \in {ApplyStage(g, globalData, StageArgs, names)} :
        run' = [first |-> f, second |-> g, names |-> names,
                afterFirst |-> Structure(byF),
                afterSecond |-> Structure(byG),
                firstThenSecond |-> Structure(ApplyStage(g, byF, StageArgs, names)),
                secondThenFirst |-> Structure(ApplyStage(f, byG, StageArgs, names))]
  /\ pc' = "applied"
  /\ args' = StageArgs
  /\ UNCHANGED <<globalData, searchIndex>>

\* the results are dropped
Forget ==
  /\ pc = "applied"
  /\ pc' = "idle"
  /\ args' = NoArgs
  /\ run' = NoRun
  /\ UNCHANGED <<globalData, searchIndex>>

NextStages ==
  \/ \E f \in Facets, g \in Stages :
       \E names \in IF g = "search" THEN NameSets ELSE {{}} : ApplyBoth(f, g, names)
  \/ \E names \in NameSets : ApplyBoth("search", "search", names)
  \/ Forget

SpecStages == Init /\ [][NextStages]_vars

RECURSIVE IdsIn(_)
\* the ids of the nodes of a Structure
IdsIn(st) ==
  IF ~IsNode(st) THEN {}
  ELSE {st.id} \cup
       (IF IsSome(st.children)
        THEN UNION {IdsIn(Val(st.children)[i]) : i \in DOMAIN Val(st.children)}
        ELSE {})

(***************************************************************************)
(* C29.  Facet stages commute: for two different facets, when neither      *)
(* filter alone empties the tree, filtering by the first and then by the   *)
(* second leaves the same nodes as filtering by the second and then by     *)
(* the first, or null both ways.                                           *)
(***************************************************************************)
C29_FacetStagesCommute ==
  (/\ pc = "applied"
   /\ run.first \in Facets /\ run.second \in Facets /\ run.first # run.second
   /\ IsNode(run.afterFirst) /\ IsNode(run.afterSecond)) =>
    /\ IsNull(run.firstThenSecond) <=> IsNull(run.secondThenFirst)
    /\ IdsIn(run.firstThenSecond) = IdsIn(run.secondThenFirst)

(***************************************************************************)
(* C30.  Each filter stage is idempotent: filterBySearchNames with the     *)
(* same matched-name set, or a facet filter with the same value, applied   *)
(* to its own non-null output returns a tree with the same nodes, names    *)
(* and children lists.                                                     *)
(***************************************************************************)
C30_StageIdempotent ==
  (pc = "applied" /\ run.first = run.second /\ IsNode(run.afterFirst)) =>
    run.firstThenSecond = run.afterFirst

\* the search filter was applied to its own output, which holds a node that
\* does not match, under a matching node that got its original children
\* back, and does not hold every node of the source tree
C30_Witness ==
  /\ pc = "applied" /\ run.first = "search" /\ run.second = "search"
  /\ IsNode(run.afterFirst)
  /\ run.firstThenSecond = run.afterFirst
  /\ IdsIn(run.afterFirst) # IdsOf(globalData)
  /\ \E n \in NodesOf(globalData) :
       /\ n.id \in IdsIn(run.afterFirst)
       /\ \A d \in NodesOf(n) : d.name \notin run.names

====
